---- MODULE Spec2Model ----
(***************************************************************************)
(* Model of the better-qdrant MCP server: the tool handlers of             *)
(* BetterQdrantServer (list_collections, add_documents, search,            *)
(* delete_collection), the embedding-service factory with the Ollama       *)
(* dimension cache, the VectorValidationService and the DefaultQdrantService*)
(* adapter, running against an external vector store and external          *)
(* embedding back ends.                                                    *)
(*                                                                         *)
(* Every handler is an async function: it runs atomically up to its next   *)
(* await, and the handlers of different requests interleave at the awaits. *)
(* One action of the model is one such atomic stretch, together with the   *)
(* answer of the external call it was waiting for.                         *)
(***************************************************************************)
EXTENDS Integers, Sequences, FiniteSets, TLC

\* -------------------------------------------------------------------------
\* Bounds of the model
\* -------------------------------------------------------------------------

\* Number of tool invocations that can be in flight at the same time.
MaxInv == 2

\* Largest number of chunks the external splitter returns for a document.
MaxChunks == 2

\* Largest number of points the store holds in a collection; an upsert that
\* would exceed it is refused by the store.
MaxPoints == 2

\* -------------------------------------------------------------------------
\* Program constants
\* -------------------------------------------------------------------------

OpenAIVectorSize == 1536
OpenRouterVectorSize == 1536
FastEmbedVectorSize == 384
OllamaStaticVectorSize == 768
DefaultChunkSize == 1000
DefaultChunkOverlap == 200
ExtremeThreshold == 100

\* new RecursiveCharacterTextSplitter({chunkSize, chunkOverlap}): the
\* TextSplitter constructor of @langchain/textsplitters throws when the
\* overlap is not smaller than the chunk size.
SplitterRefuses(chunkSize, chunkOverlap) == chunkOverlap >= chunkSize

SplitterRefusal == "Cannot have chunkOverlap >= chunkSize"

\* new TextProcessor(chunkSize, chunkOverlap): the two fields and the
\* splitter built from them.
TextProcessor(chunkSize, chunkOverlap) ==
    [chunkSize |-> chunkSize, chunkOverlap |-> chunkOverlap,
     splitter |-> [chunkSize |-> chunkSize, chunkOverlap |-> chunkOverlap]]

\* TextProcessor.setChunkSize: the field is assigned, then a splitter is
\* built from the two fields; when the constructor throws the field keeps
\* the new value and the splitter stays the one built before.
setChunkSize(processor, size) ==
    LET assigned == [processor EXCEPT !.chunkSize = size]
    IN IF SplitterRefuses(size, processor.chunkOverlap)
       THEN [ok |-> FALSE, processor |-> assigned]
       ELSE [ok |-> TRUE,
             processor |-> TextProcessor(size, processor.chunkOverlap)]

\* TextProcessor.setChunkOverlap, likewise.
setChunkOverlap(processor, overlap) ==
    LET assigned == [processor EXCEPT !.chunkOverlap = overlap]
    IN IF SplitterRefuses(processor.chunkSize, overlap)
       THEN [ok |-> FALSE, processor |-> assigned]
       ELSE [ok |-> TRUE,
             processor |-> TextProcessor(processor.chunkSize, overlap)]

\* types.ts: EmbeddingService
EmbeddingServices == {"openai", "openrouter", "fastembed", "ollama"}

\* The environment of the modelled process: the services whose
\* <KIND>_API_KEY variable is set.  OPENAI_API_KEY is, OPENROUTER_API_KEY is
\* not, so both outcomes of the credential test occur.
ApiKeys == {"openai"}

\* The one collection name the invocations of the model use.
Collections == {"docs"}

\* The one cache key of the process: `${endpoint}:${model}` of the Ollama
\* provider, both read from the environment (defaults shown).
ModelKey == "http://host.docker.internal:11434:nomic-embed-text"

\* Lengths of the test embedding the Ollama back end may answer a probe with.
ProbeSizes == {0, 2, 3}

Slots == 1..MaxInv

\* -------------------------------------------------------------------------
\* Values
\* -------------------------------------------------------------------------

\* undefined / null, and a present value.
None == <<>>
Some(x) == <<x>>

\* Values a caller passes as chunkSize / chunkOverlap: omitted, or a number.
\* An overlap of 500 is accepted by the splitter with the default chunk size
\* and refused with a chunk size of 500.
ChunkSizeArgs == {None, Some(0), Some(500)}
ChunkOverlapArgs == {None, Some(0), Some(500)}

\* JavaScript truthiness of an optional number: `if (x)`.
Truthy(x) == x # None /\ x[1] # 0

\* An entry of a vector as JavaScript sees it: a number, NaN (typeof
\* 'number' too), a string that does not convert to a number, or a value
\* that is no number but converts to the number n where arithmetic is done
\* on it ("150", "1e3", [150]).
Num(n) == [t |-> "number", v |-> n]
NaNElem == [t |-> "nan", v |-> 0]
StrElem == [t |-> "string", v |-> 0]
Convertible(n) == [t |-> "convertible", v |-> n]

\* An element of a batch: an array of entries, something that is no array
\* and no object (undefined, null), or an object that is no array ({}).
\* Array.from throws on the second and makes the empty array of the third.
Arr(es) == [isArray |-> TRUE, elems |-> es, arrayLike |-> TRUE]
NotArray == [isArray |-> FALSE, elems |-> <<>>, arrayLike |-> FALSE]
PlainObject == [isArray |-> FALSE, elems |-> <<>>, arrayLike |-> TRUE]

ConstVec(n, e) == Arr([k \in 1..n |-> e])
WithFirst(vec, e) == Arr([k \in 1..Len(vec.elems) |-> IF k = 1 THEN e ELSE vec.elems[k]])

Abs(n) == IF n < 0 THEN -n ELSE n

\* A test that also rejects the numbers beyond the sanity threshold.
IsNotSmallNumber(e) == e.t # "number" \/ Abs(e.v) > ExtremeThreshold

\* typeof val !== 'number' || isNaN(val)
IsNonNumber(e) == e.t # "number"

\* A test that takes the threshold itself for extreme.
IsExtremeFromThreshold(e) ==
    e.t \in {"number", "convertible"} /\ Abs(e.v) >= ExtremeThreshold

\* Math.abs(val) > 100: Math.abs converts its argument, so the test is made
\* on every entry that is or converts to a number; NaN and a string that
\* converts to NaN compare false.
IsExtreme(e) == e.t \in {"number", "convertible"} /\ Abs(e.v) > ExtremeThreshold

\* vector.filter(val => typeof val !== 'number' || isNaN(val)).length
NonNumbers(es) == Len(SelectSeq(es, IsNonNumber))

\* vector.filter(val => Math.abs(val) > 100).length
ExtremeValues(es) == Len(SelectSeq(es, IsExtreme))

\* A check that stops at the first fault of a vector: an array of the wrong
\* length is not tested for non-numeric entries.
VectorErrorsFirstOnly(vector, index, expectedSize) ==
    IF ~vector.isArray
    THEN << [msg |-> "is not an array", index |-> index, a |-> 0, b |-> 0] >>
    ELSE IF Len(vector.elems) # expectedSize
    THEN << [msg |-> "has size", index |-> index,
             a |-> Len(vector.elems), b |-> expectedSize] >>
    ELSE IF NonNumbers(vector.elems) > 0
    THEN << [msg |-> "non-numeric values", index |-> index,
             a |-> NonNumbers(vector.elems), b |-> 0] >>
    ELSE << >>

\* The messages validateVectorData pushes for the vector at (0-based) index.
VectorErrors(vector, index, expectedSize) ==
    IF ~vector.isArray
    THEN << [msg |-> "is not an array", index |-> index, a |-> 0, b |-> 0] >>
    ELSE (IF Len(vector.elems) # expectedSize
          THEN << [msg |-> "has size", index |-> index,
                   a |-> Len(vector.elems), b |-> expectedSize] >>
          ELSE << >>)
         \o
         (IF NonNumbers(vector.elems) > 0
          THEN << [msg |-> "non-numeric values", index |-> index,
                   a |-> NonNumbers(vector.elems), b |-> 0] >>
          ELSE << >>)

VectorWarnings(vector, index) ==
    IF vector.isArray /\ ExtremeValues(vector.elems) > 0
    THEN << [msg |-> "values with absolute value > 100", index |-> index,
             a |-> ExtremeValues(vector.elems), b |-> 0] >>
    ELSE << >>

\* A loop that stops at the first vector it finds errors in.
RECURSIVE ErrorsUpToFirst(_, _, _)
ErrorsUpToFirst(vectors, k, expectedSize) ==
    IF k > Len(vectors) THEN << >>
    ELSE IF VectorErrors(vectors[k], k - 1, expectedSize) # << >>
    THEN VectorErrors(vectors[k], k - 1, expectedSize)
    ELSE ErrorsUpToFirst(vectors, k + 1, expectedSize)

RECURSIVE ErrorsFrom(_, _, _)
ErrorsFrom(vectors, k, expectedSize) ==
    IF k > Len(vectors) THEN << >>
    ELSE VectorErrors(vectors[k], k - 1, expectedSize)
         \o ErrorsFrom(vectors, k + 1, expectedSize)

RECURSIVE WarningsFrom(_, _)
WarningsFrom(vectors, k) ==
    IF k > Len(vectors) THEN << >>
    ELSE VectorWarnings(vectors[k], k - 1) \o WarningsFrom(vectors, k + 1)

\* A validator without the check of the empty batch.
validateVectorDataPerElement(vectors, expectedSize) ==
    [isValid |-> Len(ErrorsFrom(vectors, 1, expectedSize)) = 0,
     errors |-> ErrorsFrom(vectors, 1, expectedSize),
     warnings |-> WarningsFrom(vectors, 1),
     vectorCount |-> Len(vectors),
     expectedSize |-> expectedSize]

\* A validator that takes a warning for a reason to reject the batch.
validateVectorDataStrict(vectors, expectedSize) ==
    LET errors == (IF Len(vectors) = 0
                   THEN << [msg |-> "No vectors provided", index |-> 0, a |-> 0, b |-> 0] >>
                   ELSE << >>)
                  \o ErrorsFrom(vectors, 1, expectedSize)
        warnings == WarningsFrom(vectors, 1)
    IN [isValid |-> Len(errors) = 0 /\ Len(warnings) = 0,
        errors |-> errors,
        warnings |-> warnings,
        vectorCount |-> Len(vectors),
        expectedSize |-> expectedSize]

\* VectorValidationService.validateVectorData
validateVectorData(vectors, expectedSize) ==
    LET errors == (IF Len(vectors) = 0
                   THEN << [msg |-> "No vectors provided", index |-> 0, a |-> 0, b |-> 0] >>
                   ELSE << >>)
                  \o ErrorsFrom(vectors, 1, expectedSize)
        warnings == WarningsFrom(vectors, 1)
    IN [isValid |-> Len(errors) = 0,
        errors |-> errors,
        warnings |-> warnings,
        vectorCount |-> Len(vectors),
        expectedSize |-> expectedSize]

\* -------------------------------------------------------------------------
\* Embedding services
\* -------------------------------------------------------------------------

Threw(message) == [ok |-> FALSE, error |-> message, value |-> None]
Returned(value) == [ok |-> TRUE, error |-> "", value |-> Some(value)]

\* A factory that builds every service it knows without asking for its
\* credential.
createEmbeddingServiceUnchecked(config) ==
    CASE config.type \in {"openai", "openrouter"} ->
            Returned([type |-> config.type, vectorSize |-> Some(OpenAIVectorSize),
                      initializes |-> FALSE])
      [] config.type = "ollama" ->
            Returned([type |-> "ollama", vectorSize |-> None, initializes |-> TRUE])
      [] config.type = "fastembed" ->
            Returned([type |-> "fastembed", vectorSize |-> Some(FastEmbedVectorSize),
                      initializes |-> FALSE])
      [] OTHER -> Threw("Unknown embedding service type")

\* createEmbeddingService: the instance is kept by its kind, its vector size
\* (None while OllamaEmbeddingService._vectorSize is null) and whether it has
\* an initializeVectorSize method.
createEmbeddingService(config) ==
    CASE config.type = "openai" ->
            IF ~config.apiKey THEN Threw("OpenAI API key is required")
            ELSE Returned([type |-> "openai", vectorSize |-> Some(OpenAIVectorSize),
                           initializes |-> FALSE])
      [] config.type = "openrouter" ->
            IF ~config.apiKey THEN Threw("OpenRouter API key is required")
            ELSE Returned([type |-> "openrouter", vectorSize |-> Some(OpenRouterVectorSize),
                           initializes |-> FALSE])
      [] config.type = "ollama" ->
            Returned([type |-> "ollama", vectorSize |-> None, initializes |-> TRUE])
      [] config.type = "fastembed" ->
            Returned([type |-> "fastembed", vectorSize |-> Some(FastEmbedVectorSize),
                      initializes |-> FALSE])
      [] OTHER -> Threw("Unknown embedding service type")

\* The OllamaEmbeddingService of fixed vector size, which asks its back end
\* for one embedding per request.
OllamaStatic ==
    [type |-> "ollama_sequential", vectorSize |-> Some(OllamaStaticVectorSize),
     initializes |-> FALSE]

\* createEmbeddingService of services/embeddings/index.ts, built with the
\* OllamaEmbeddingService of fixed vector size.
createEmbeddingServiceStatic(config) ==
    IF config.type = "ollama" THEN Returned(OllamaStatic)
    ELSE createEmbeddingService(config)

\* OllamaEmbeddingService.initializeVectorSize, the test of the cached size:
\* `if (cachedSize)`.
CacheHit(cachedSize) == Truthy(cachedSize)

\* dimensionCache.get(modelKey)
CacheGet(cache, key) == IF key \in DOMAIN cache THEN Some(cache[key]) ELSE None

\* dimensionCache.set(modelKey, size)
CacheSet(cache, key, size) ==
    [k \in DOMAIN cache \cup {key} |-> IF k = key THEN size ELSE cache[k]]

\* What a back end answers to an embedding request: the call fails
\* ("unreachable"), the body lacks the array of embeddings ("malformed"), or
\* it carries a sequence of embeddings.
Unreachable == [status |-> "unreachable", embeddings |-> << >>]
Malformed == [status |-> "malformed", embeddings |-> << >>]
Embeddings(es) == [status |-> "ok", embeddings |-> es]

\* Array.from(embedding) of an array or an object: the array of its entries,
\* which for an object that is no array is empty.
ArrayFrom(embedding) == IF embedding.isArray THEN embedding ELSE Arr(<< >>)

\* generateEmbeddings of each service applied to the answer of its back end:
\* what it returns, or that it throws.  vectorSize is the instance's
\* _vectorSize when the answer is examined (for the Ollama service: after
\* generateEmbeddings has made sure it is initialized).
generateEmbeddings(type, answer, vectorSize) ==
    LET embeddings == answer.embeddings
    IN CASE answer.status = "unreachable" -> Threw("request failed")
         [] answer.status = "malformed" -> Threw("Invalid response from API")
         [] type \in {"openai", "openrouter"} ->
               IF \E k \in 1..Len(embeddings) : ~embeddings[k].isArray
               THEN Threw("Invalid embedding format in response")
               ELSE Returned(embeddings)
         [] type = "fastembed" ->
               IF \E k \in 1..Len(embeddings) : ~embeddings[k].arrayLike
               THEN Threw("embedding is not iterable")
               ELSE Returned([k \in 1..Len(embeddings) |-> ArrayFrom(embeddings[k])])
         [] OTHER ->
               LET badFormat(k) ==
                       \/ ~embeddings[k].isArray
                       \/ \E j \in 1..Len(embeddings[k].elems) :
                             embeddings[k].elems[j].t \notin {"number", "nan"}
                   bad(k) == \/ badFormat(k)
                             \/ vectorSize = None
                             \/ Len(embeddings[k].elems) # vectorSize[1]
                   first == CHOOSE k \in 1..Len(embeddings) :
                               bad(k) /\ \A j \in 1..(k - 1) : ~bad(j)
               IN IF \A k \in 1..Len(embeddings) : ~bad(k)
                  THEN Returned(embeddings)
                  ELSE IF badFormat(first)
                  THEN Threw("Invalid embedding format")
                  ELSE Threw("Dimension mismatch")

\* -------------------------------------------------------------------------
\* Compatibility verdicts (VectorValidationService.validateEmbeddingCompatibility)
\* -------------------------------------------------------------------------

SuggestedActions ==
    << "Use a different embedding service that produces the collection's vector size",
       "Create a new collection with the embedding service's vector size",
       "Delete and recreate the collection (WARNING: this will lose all data)" >>

Verdict(isValid, action, expected, actual, suggested) ==
    [isValid |-> isValid, action |-> action, expectedVectorSize |-> expected,
     actualVectorSize |-> actual, suggestedActions |-> suggested]

\* A validator that reports a missing collection as an error.
VerdictNoCollectionAsError(vectorSize) ==
    Verdict(FALSE, "error", vectorSize, None, None)

\* The verdict returned when collectionExists answered false.
VerdictNoCollection(vectorSize) ==
    Verdict(TRUE, "create_collection", vectorSize, None, None)

\* A validator that takes missing metadata for a missing collection.
VerdictNoInfoAsCreate(vectorSize) ==
    Verdict(TRUE, "create_collection", vectorSize, None, None)

\* The verdict returned when getCollectionInfo answered null.
VerdictNoInfo(vectorSize) ==
    Verdict(FALSE, "error", vectorSize, None, None)

\* A comparison that rejects only vectors too long for the collection.
SizesDifferOnlyIfLonger(collectionSize, vectorSize) == collectionSize < vectorSize

\* collectionInfo.vectorSize !== embeddingService.vectorSize
SizesDiffer(collectionSize, vectorSize) == collectionSize # vectorSize

\* The verdict returned when the collection's metadata was retrieved.
VerdictForInfo(collectionSize, vectorSize) ==
    IF SizesDiffer(collectionSize, vectorSize)
    THEN Verdict(FALSE, "size_mismatch", vectorSize, Some(collectionSize),
                 Some(SuggestedActions))
    ELSE Verdict(TRUE, "compatible", vectorSize, Some(collectionSize), None)

\* -------------------------------------------------------------------------
\* State
\* -------------------------------------------------------------------------

VARIABLES
    store,           \* the vector store: collection name -> [size, points]
    dimensionCache,  \* OllamaEmbeddingService.dimensionCache: key -> size
    textProcessor,   \* BetterQdrantServer.textProcessor: [chunkSize, chunkOverlap, splitter]
    inv,             \* the tool invocations in flight, one record per slot
    call             \* a direct call of a library function by a client of the
                     \* modules (as test-validation.js makes): its input and result

vars == << store, dimensionCache, textProcessor, inv, call >>

\* No direct call is made: the process only serves tool invocations.
NoCall == [fn |-> "none"]

\* A slot no invocation occupies.
IdleSlot ==
    [pc |-> "idle", tool |-> "none", service |-> "none", collection |-> "none",
     chunks |-> 0, split |-> None, vectorSize |-> None, seen |-> None,
     compat |-> None, validation |-> None, received |-> 0, vectors |-> << >>,
     muts |-> 0, result |-> None]

Init ==
    /\ store = << >>
    /\ dimensionCache = << >>
    /\ textProcessor = TextProcessor(DefaultChunkSize, DefaultChunkOverlap)
    /\ inv = [i \in Slots |-> IdleSlot]
    /\ call = NoCall

\* -------------------------------------------------------------------------
\* Tool results
\* -------------------------------------------------------------------------

Result(isError, text, errors, warnings, suggested, count) ==
    [isError |-> isError, text |-> text, errors |-> errors, warnings |-> warnings,
     suggested |-> suggested, count |-> count]

\* The catch block of a handler: prefix + error message, isError.
Caught(prefix, message) ==
    Result(TRUE, prefix, << message >>, << >>, None, 0)

\* The error result of a negative compatibility verdict.
CompatError(verdict) ==
    Result(TRUE, "Embedding compatibility error", << verdict.action >>, << >>,
           verdict.suggestedActions, 0)

\* The slot of an invocation that has returned `result`.
Finished(slot, result) ==
    [IdleSlot EXCEPT !.pc = "done", !.tool = slot.tool, !.service = slot.service,
                     !.collection = slot.collection, !.vectorSize = slot.vectorSize,
                     !.seen = slot.seen, !.compat = slot.compat,
                     !.validation = slot.validation, !.received = slot.received,
                     !.muts = slot.muts,
                     !.result = Some(result)]

CatchPrefix(tool) ==
    CASE tool = "add_documents" -> "Error adding documents"
      [] tool = "search" -> "Error searching"
      [] tool = "delete_collection" -> "Error deleting collection"
      [] OTHER -> "Error listing collections"

\* -------------------------------------------------------------------------
\* The external services
\* -------------------------------------------------------------------------

GoodBatch(n, size) == [k \in 1..n |-> ConstVec(size, Num(1))]

\* The answer every back end is expected to give to a request for n texts.
GoodAnswer(n, size) == Embeddings(GoodBatch(n, size))

\* What an embedding back end may answer to a request for n texts when the
\* service expects vectors of the given size: no answer, a malformed one, the
\* n vectors asked for, one vector fewer or more, or n vectors of which the
\* first is too long, holds a value of absolute value 150, holds a
\* non-numeric entry, is no array and no object, or is an object that is no
\* array.
Answers(n, size, type) ==
    {Unreachable, Malformed, GoodAnswer(n, size), GoodAnswer(n + 1, size)}
    \cup (IF n = 0 THEN {}
          ELSE {GoodAnswer(n - 1, size),
                Embeddings([GoodBatch(n, size) EXCEPT ![1] = ConstVec(size + 1, Num(1))]),
                Embeddings([GoodBatch(n, size) EXCEPT ![1] = WithFirst(@, Num(150))]),
                Embeddings([GoodBatch(n, size) EXCEPT
                    ![1] = WithFirst(@, IF type = "fastembed" THEN NaNElem ELSE StrElem)]),
                Embeddings([GoodBatch(n, size) EXCEPT ![1] = NotArray]),
                Embeddings([GoodBatch(n, size) EXCEPT ![1] = PlainObject])})

\* The answers of a back end that is either down or behaves as expected.
PlainAnswers(n, size, type) == {Unreachable, GoodAnswer(n, size)}

\* The vector of the point built for chunk k: embeddings[k], kept by its
\* length; None when embeddings has no such element.
PointVector(embeddings, k) ==
    IF k <= Len(embeddings) THEN Some(Len(embeddings[k].elems)) ELSE None

\* The handlers from the call of generateEmbeddings to the vector-batch
\* verdict: add_documents validates the whole batch and builds one point per
\* chunk, search validates the first embedding alone.  `received` is
\* embeddings.length, the number of vectors the provider returned.
EmbedOutcome(tool, type, size, n, answer) ==
    LET made == generateEmbeddings(type, answer, Some(size))
        embeddings == made.value[1]
        vectors == IF tool = "add_documents" THEN embeddings
                   ELSE IF Len(embeddings) >= 1 THEN << embeddings[1] >>
                   ELSE << NotArray >>
        validation == validateVectorData(vectors, size)
    IN IF ~made.ok
       THEN [threw |-> TRUE, error |-> made.error, validation |-> None,
             received |-> 0, vectors |-> << >>]
       ELSE [threw |-> FALSE, error |-> "",
             validation |-> Some([isValid |-> validation.isValid,
                                  errors |-> validation.errors,
                                  warnings |-> validation.warnings]),
             received |-> Len(embeddings),
             vectors |-> IF tool = "add_documents"
                         THEN [k \in 1..n |-> PointVector(embeddings, k)]
                         ELSE << PointVector(vectors, 1) >>]

\* The vector sizes an instance of each service can have.
SizesOf(type) ==
    CASE type = "openai" -> {OpenAIVectorSize}
      [] type = "openrouter" -> {OpenRouterVectorSize}
      [] type = "fastembed" -> {FastEmbedVectorSize}
      [] OTHER -> ProbeSizes

\* The requests generateEmbeddings is called with: the tool, the service,
\* its vector size and the number of texts.
EmbedKeys ==
    UNION {{<< "add_documents", type, size, n >> :
                size \in SizesOf(type), n \in 0..MaxChunks}
           \cup {<< "search", type, size, 1 >> : size \in SizesOf(type)} :
           type \in EmbeddingServices}

\* The outcomes of EmbedOutcome over the answers of the back end, per request.
EmbedOutcomes ==
    [key \in EmbedKeys |->
        {EmbedOutcome(key[1], key[2], key[3], key[4], answer) :
            answer \in Answers(key[4], key[3], key[2])}]

PlainOutcomes ==
    [key \in EmbedKeys |->
        {EmbedOutcome(key[1], key[2], key[3], key[4], answer) :
            answer \in PlainAnswers(key[4], key[3], key[2])}]

\* The store accepts a create-collection call.
StoreCreates(name, size) == name \notin DOMAIN store /\ size >= 1

\* The store accepts an upsert of points whose vectors have these lengths
\* (None: the point has no vector).
StoreUpserts(name, vectors) ==
    /\ name \in DOMAIN store
    /\ \A k \in 1..Len(vectors) : vectors[k] = Some(store[name].size)
    /\ store[name].points + Len(vectors) <= MaxPoints

\* The store accepts a similarity search with a vector of this length.
StoreSearches(name, vector) ==
    name \in DOMAIN store /\ vector = Some(store[name].size)

StoreWith(name, size, points) ==
    [c \in DOMAIN store \cup {name} |->
        IF c = name THEN [size |-> size, points |-> points] ELSE store[c]]

StoreWithout(name) == [c \in DOMAIN store \ {name} |-> store[c]]

\* -------------------------------------------------------------------------
\* Steps of the handlers.  The parameters after the slot are the inputs of
\* the step: the arguments of the call and the answer of the external service.
\* -------------------------------------------------------------------------

\* Invocation i moves on to `slot`; the handlers make no direct library call
\* of the kind `call` records.
Set(i, slot) == inv' = [inv EXCEPT ![i] = slot] /\ UNCHANGED call

Fail(i, slot, message) ==
    Set(i, Finished(slot, Caught(CatchPrefix(slot.tool), message)))

\* The slot of a list_collections invocation that awaits the listing.
ListSlot == [IdleSlot EXCEPT !.pc = "list", !.tool = "list_collections"]

\* handleListCollections up to its await: the listing request is sent.
ListStart(i) ==
    /\ inv[i].pc = "idle"
    /\ Set(i, ListSlot)
    /\ UNCHANGED << store, dimensionCache, textProcessor >>

\* handleListCollections: listCollections has answered.
ListCollections(i, ok) ==
    /\ inv[i].pc = "list"
    /\ LET slot == inv[i]
       IN IF ok
          THEN Set(i, Finished(slot, Result(FALSE, "collections", << >>, << >>, None,
                                            Cardinality(DOMAIN store))))
          ELSE Fail(i, slot, "Failed to list collections")
    /\ UNCHANGED << store, dimensionCache, textProcessor >>

\* The slot of a delete_collection invocation that awaits the store.
DeleteSlot(name) ==
    [IdleSlot EXCEPT !.pc = "delete", !.tool = "delete_collection",
                     !.collection = name, !.muts = 1]

\* handleDeleteCollection up to its await: the delete request is sent.
DeleteStart(i, name) ==
    /\ inv[i].pc = "idle"
    /\ Set(i, DeleteSlot(name))
    /\ UNCHANGED << store, dimensionCache, textProcessor >>

\* handleDeleteCollection: deleteCollection has answered; the store has
\* dropped the collection, or has refused.
DeleteCollection(i, ok) ==
    /\ inv[i].pc = "delete"
    /\ LET slot == inv[i]
       IN IF ok
          THEN /\ store' = StoreWithout(slot.collection)
               /\ Set(i, Finished(slot, Result(FALSE, "Successfully deleted collection",
                                               << >>, << >>, None, 0)))
          ELSE /\ store' = store
               /\ Fail(i, slot, "Failed to delete collection")
    /\ UNCHANGED << dimensionCache, textProcessor >>

\* createAndInitializeEmbeddingService up to its first await: the service is
\* constructed and, for a service with initializeVectorSize, the dimension
\* cache is consulted; a miss sends the probe.
Build(slot) ==
    LET made == createEmbeddingService([type |-> slot.service,
                                        apiKey |-> slot.service \in ApiKeys])
    IN IF ~made.ok
       THEN Finished(slot, Caught(CatchPrefix(slot.tool), made.error))
       ELSE IF ~made.value[1].initializes
       THEN [slot EXCEPT !.pc = "exists", !.split = None,
                         !.vectorSize = made.value[1].vectorSize]
       ELSE IF CacheHit(CacheGet(dimensionCache, ModelKey))
       THEN [slot EXCEPT !.pc = "exists", !.split = None,
                         !.vectorSize = CacheGet(dimensionCache, ModelKey)]
       ELSE [slot EXCEPT !.pc = "probe", !.split = None]

\* The text processor after handleAddDocuments has applied the chunk
\* arguments: `if (args.chunkSize) setChunkSize(...)`, then likewise the
\* overlap unless setChunkSize has thrown (ok = FALSE: a setter threw).
Configured(chunkSize, chunkOverlap) ==
    LET sized == IF Truthy(chunkSize)
                 THEN setChunkSize(textProcessor, chunkSize[1])
                 ELSE [ok |-> TRUE, processor |-> textProcessor]
    IN IF sized.ok /\ Truthy(chunkOverlap)
       THEN setChunkOverlap(sized.processor, chunkOverlap[1])
       ELSE sized

\* The slot of an add_documents invocation at its first await: the file is
\* read and handed to the splitter, or a setter of the text processor or
\* the read has thrown and the catch block has built the error result.
AddSlot(name, type, chunkSize, chunkOverlap, readOk) ==
    LET lapped == Configured(chunkSize, chunkOverlap)
        slot == [IdleSlot EXCEPT !.tool = "add_documents", !.service = type,
                                 !.collection = name]
    IN IF ~lapped.ok
       THEN Finished(slot, Caught(CatchPrefix(slot.tool), SplitterRefusal))
       ELSE IF ~readOk
       THEN Finished(slot, Caught(CatchPrefix(slot.tool),
                                  "ENOENT: no such file or directory"))
       ELSE [slot EXCEPT
               !.pc = "split",
               !.split = Some([chunkSize |-> lapped.processor.splitter.chunkSize,
                               chunkOverlap |-> lapped.processor.splitter.chunkOverlap,
                               sizeArg |-> chunkSize,
                               overlapArg |-> chunkOverlap])]

\* handleAddDocuments up to its first await: the text processor is
\* reconfigured, the file is read and handed to the splitter.
AddStart(i, name, type, chunkSize, chunkOverlap, readOk) ==
    /\ inv[i].pc = "idle"
    /\ textProcessor' = Configured(chunkSize, chunkOverlap).processor
    /\ Set(i, AddSlot(name, type, chunkSize, chunkOverlap, readOk))
    /\ UNCHANGED << store, dimensionCache >>

\* handleAddDocuments: the splitter has answered with n chunks and
\* createAndInitializeEmbeddingService is called.
AddBuild(i, n) ==
    /\ inv[i].pc = "split"
    /\ Set(i, Build([inv[i] EXCEPT !.chunks = n]))
    /\ UNCHANGED << store, dimensionCache, textProcessor >>

\* The slot of a search invocation at its first await.
SearchSlot(name, type) ==
    Build([IdleSlot EXCEPT !.tool = "search", !.service = type,
                           !.collection = name, !.chunks = 1])

\* handleSearch up to its first await.
SearchStart(i, name, type) ==
    /\ inv[i].pc = "idle"
    /\ Set(i, SearchSlot(name, type))
    /\ UNCHANGED << store, dimensionCache, textProcessor >>

\* initializeVectorSize after the probe (detectModelDimensions) has answered:
\* with a test embedding of the given length, or not at all (size = None).
ProbeReturn(i, size) ==
    /\ inv[i].pc = "probe"
    /\ IF size = None
       THEN /\ Fail(i, inv[i], "Failed to detect vector dimensions")
            /\ UNCHANGED dimensionCache
       ELSE /\ dimensionCache' = CacheSet(dimensionCache, ModelKey, size[1])
            /\ Set(i, [inv[i] EXCEPT !.pc = "exists", !.vectorSize = size])
    /\ UNCHANGED << store, textProcessor >>

\* The handler's test of the compatibility verdict: a negative verdict ends
\* the invocation with an error result, a positive one goes on to embed.
AfterCompat(slot, verdict) ==
    IF ~verdict.isValid
    THEN Finished([slot EXCEPT !.compat = Some(verdict)], CompatError(verdict))
    ELSE [slot EXCEPT !.pc = "embed", !.compat = Some(verdict)]

\* validateEmbeddingCompatibility: collectionExists has answered.  A failed
\* listing (ok = FALSE) is swallowed by collectionExists and reads as "does
\* not exist".
CompatExists(i, ok) ==
    /\ inv[i].pc = "exists"
    /\ LET slot == inv[i]
           existed == slot.collection \in DOMAIN store
           collectionExists == ok /\ existed
           saw == [slot EXCEPT !.seen = Some([listed |-> ok, existed |-> existed,
                                              fetched |-> FALSE, size |-> 0])]
       IN IF ~collectionExists
          THEN Set(i, AfterCompat(saw, VerdictNoCollection(slot.vectorSize[1])))
          ELSE Set(i, [saw EXCEPT !.pc = "info"])
    /\ UNCHANGED << store, dimensionCache, textProcessor >>

\* validateEmbeddingCompatibility: getCollectionInfo has answered, with null
\* when the call failed (ok = FALSE) or the collection is gone.
CompatInfo(i, ok) ==
    /\ inv[i].pc = "info"
    /\ LET slot == inv[i]
           collectionInfo == IF ok /\ slot.collection \in DOMAIN store
                             THEN Some(store[slot.collection].size)
                             ELSE None
           saw == [slot EXCEPT !.seen = Some([@[1] EXCEPT
                       !.fetched = collectionInfo # None,
                       !.size = IF collectionInfo # None THEN collectionInfo[1] ELSE 0])]
       IN IF collectionInfo = None
          THEN Set(i, AfterCompat(saw, VerdictNoInfo(slot.vectorSize[1])))
          ELSE Set(i, AfterCompat(saw, VerdictForInfo(collectionInfo[1],
                                                      slot.vectorSize[1])))
    /\ UNCHANGED << store, dimensionCache, textProcessor >>

\* A handler that goes on whatever the vector-batch verdict.
VectorsAcceptedAlways(validation) == TRUE

\* The handler's test of the vector-batch verdict.
VectorsAccepted(validation) == validation.isValid

\* A handler that never creates the collection.
NeedsCreateNever(verdict) == FALSE

\* handleAddDocuments: compatibilityResult.action === 'create_collection'
NeedsCreate(verdict) == verdict.action = "create_collection"

\* The request generateEmbeddings is called with in this slot.
EmbedKey(slot) == << slot.tool, slot.service, slot.vectorSize[1], slot.chunks >>

\* generateEmbeddings has answered and the vectors are validated.
Embed(i, outcome) ==
    /\ inv[i].pc = "embed"
    /\ LET slot == inv[i]
           checked == [slot EXCEPT !.validation = outcome.validation,
                                   !.received = outcome.received]
       IN IF outcome.threw
          THEN Fail(i, slot, outcome.error)
          ELSE IF ~VectorsAccepted(outcome.validation[1])
          THEN IF slot.tool = "add_documents"
               THEN Set(i, Finished(checked,
                        Result(TRUE, "Vector validation failed",
                               outcome.validation[1].errors,
                               outcome.validation[1].warnings, None, 0)))
               ELSE Set(i, Finished(checked,
                        Result(TRUE, "Query vector validation failed",
                               outcome.validation[1].errors, << >>, None, 0)))
          ELSE IF slot.tool = "add_documents"
          THEN Set(i, [checked EXCEPT
                         !.pc = IF NeedsCreate(slot.compat[1])
                                THEN "create" ELSE "upsert",
                         !.vectors = outcome.vectors])
          ELSE Set(i, [checked EXCEPT !.pc = "search", !.vectors = outcome.vectors])
    /\ UNCHANGED << store, dimensionCache, textProcessor >>

\* handleAddDocuments: createCollection has answered.
CreateCollection(i, ok) ==
    /\ inv[i].pc = "create"
    /\ LET slot == [inv[i] EXCEPT !.muts = @ + 1]
       IN IF ok /\ StoreCreates(slot.collection, slot.vectorSize[1])
          THEN /\ store' = StoreWith(slot.collection, slot.vectorSize[1], 0)
               /\ Set(i, [slot EXCEPT !.pc = "upsert"])
          ELSE /\ store' = store
               /\ Fail(i, slot, "Failed to create collection")
    /\ UNCHANGED << dimensionCache, textProcessor >>

\* An addDocuments that swallows the failure of the upsert, as
\* collectionExists swallows the failure of the listing: the handler goes
\* on to its success response.
UpsertSwallowing(i, ok) ==
    /\ inv[i].pc = "upsert"
    /\ LET slot == [inv[i] EXCEPT !.muts = @ + 1]
           name == slot.collection
       IN /\ store' = IF ok /\ StoreUpserts(name, slot.vectors)
                      THEN StoreWith(name, store[name].size,
                                     store[name].points + Len(slot.vectors))
                      ELSE store
          /\ Set(i, Finished(slot,
                 Result(FALSE, "Successfully processed and added",
                        << >>, slot.validation[1].warnings, None, slot.chunks)))
    /\ UNCHANGED << dimensionCache, textProcessor >>

\* handleAddDocuments: addDocuments (the upsert) has answered.
Upsert(i, ok) ==
    /\ inv[i].pc = "upsert"
    /\ LET slot == [inv[i] EXCEPT !.muts = @ + 1]
           name == slot.collection
       IN IF ok /\ StoreUpserts(name, slot.vectors)
          THEN /\ store' = StoreWith(name, store[name].size,
                                     store[name].points + Len(slot.vectors))
               /\ Set(i, Finished(slot,
                      Result(FALSE, "Successfully processed and added",
                             << >>, slot.validation[1].warnings, None, slot.chunks)))
          ELSE /\ store' = store
               /\ Fail(i, slot, "Failed to add documents")
    /\ UNCHANGED << dimensionCache, textProcessor >>

\* A search handler that creates the collection it did not find before it
\* searches it.
StoreSearchCreating(i, ok, hits) ==
    /\ inv[i].pc = "search"
    /\ hits = 0
    /\ LET slot == inv[i]
       IN /\ store' = IF slot.collection \in DOMAIN store THEN store
                      ELSE StoreWith(slot.collection, slot.vectorSize[1], 0)
          /\ Set(i, Finished([slot EXCEPT !.muts = @ + 1],
                              Result(FALSE, "No results found.", << >>,
                                     slot.validation[1].warnings, None, 0)))
    /\ UNCHANGED << dimensionCache, textProcessor >>

\* handleSearch: the store's similarity search has answered with that many
\* hits, or failed.
StoreSearch(i, ok, hits) ==
    /\ inv[i].pc = "search"
    /\ LET slot == inv[i]
       IN IF ok /\ StoreSearches(slot.collection, slot.vectors[1])
          THEN /\ hits <= store[slot.collection].points
               /\ Set(i, Finished(slot,
                      Result(FALSE, IF hits = 0 THEN "No results found." ELSE "Result",
                             << >>, slot.validation[1].warnings, None, hits)))
          ELSE hits = 0 /\ Fail(i, slot, "Failed to search collection")
    /\ UNCHANGED << store, dimensionCache, textProcessor >>

\* The result is handed to the transport; the slot is free again.
Return(i) ==
    /\ inv[i].pc = "done"
    /\ Set(i, IdleSlot)
    /\ UNCHANGED << store, dimensionCache, textProcessor >>

\* -------------------------------------------------------------------------
\* Specifications
\* -------------------------------------------------------------------------

\* No other invocation is in flight.
Alone(i) == \A j \in Slots \ {i} : inv[j].pc = "idle"

ProbeAnswers == {None} \cup {Some(size) : size \in ProbeSizes}

\* The server handling one request at a time, over all inputs: a handler
\* starts only when no other invocation is in flight.
Next ==
    \E i \in Slots :
        \/ Alone(i) /\ ListStart(i)
        \/ \E ok \in BOOLEAN : ListCollections(i, ok)
        \/ \E name \in Collections : Alone(i) /\ DeleteStart(i, name)
        \/ \E ok \in BOOLEAN : DeleteCollection(i, ok)
        \/ \E name \in Collections, type \in EmbeddingServices,
              chunkSize \in ChunkSizeArgs, chunkOverlap \in ChunkOverlapArgs,
              readOk \in BOOLEAN :
                Alone(i) /\ AddStart(i, name, type, chunkSize, chunkOverlap, readOk)
        \/ \E n \in 0..MaxChunks : AddBuild(i, n)
        \/ \E name \in Collections, type \in EmbeddingServices :
              Alone(i) /\ SearchStart(i, name, type)
        \/ \E size \in ProbeAnswers : ProbeReturn(i, size)
        \/ \E ok \in BOOLEAN : CompatExists(i, ok)
        \/ \E ok \in BOOLEAN : CompatInfo(i, ok)
        \/ /\ inv[i].pc = "embed"
           /\ \E outcome \in EmbedOutcomes[EmbedKey(inv[i])] : Embed(i, outcome)
        \/ \E ok \in BOOLEAN : CreateCollection(i, ok)
        \/ \E ok \in BOOLEAN : Upsert(i, ok)
        \/ \E ok \in BOOLEAN, hits \in 0..MaxPoints : StoreSearch(i, ok, hits)
        \/ Return(i)

Spec == Init /\ [][Next]_vars

\* The services of the concurrent specification: one with a static and one
\* with a dynamically detected vector size.
ConcServices == {"fastembed", "ollama"}

\* The server handling the requests as they arrive, their handlers
\* interleaving at every await; the documents have one chunk, the chunk
\* arguments are omitted and the embedding back ends are down or answer as
\* expected.
ConcNext ==
    \E i \in Slots :
        \/ ListStart(i)
        \/ \E ok \in BOOLEAN : ListCollections(i, ok)
        \/ \E name \in Collections : DeleteStart(i, name)
        \/ \E ok \in BOOLEAN : DeleteCollection(i, ok)
        \/ \E name \in Collections, type \in ConcServices, readOk \in BOOLEAN :
              AddStart(i, name, type, None, None, readOk)
        \/ AddBuild(i, 1)
        \/ \E name \in Collections, type \in ConcServices : SearchStart(i, name, type)
        \/ \E size \in ProbeAnswers : ProbeReturn(i, size)
        \/ \E ok \in BOOLEAN : CompatExists(i, ok)
        \/ \E ok \in BOOLEAN : CompatInfo(i, ok)
        \/ /\ inv[i].pc = "embed"
           /\ \E outcome \in PlainOutcomes[EmbedKey(inv[i])] : Embed(i, outcome)
        \/ \E ok \in BOOLEAN : CreateCollection(i, ok)
        \/ \E ok \in BOOLEAN : Upsert(i, ok)
        \/ \E ok \in BOOLEAN, hits \in 0..MaxPoints : StoreSearch(i, ok, hits)
        \/ Return(i)

ConcSpec == Init /\ [][ConcNext]_vars

\* -------------------------------------------------------------------------
\* Direct calls of validateVectorData
\* -------------------------------------------------------------------------

\* Largest number of vectors in a batch handed to validateVectorData.
MaxBatch == 2

\* The entries of the vectors: an ordinary number, the two numbers of
\* absolute value exactly 100, numbers beyond it on either side, NaN, a
\* value that is no number, and one that is no number but converts to 150.
VectorEntries ==
    {Num(1), Num(100), Num(-100), Num(150), Num(-101), NaNElem, StrElem,
     Convertible(150)}

\* The lengths of the vectors, and the expected sizes they are checked against.
VectorLengths == {0, 1, 2}
ExpectedSizes == {0, 1, 2}

\* The elements of a batch: every array of these entries and lengths, and a
\* value that is no array.
BatchElements ==
    {Arr(es) : es \in UNION {[1..n -> VectorEntries] : n \in VectorLengths}}
    \cup {NotArray}

Batches == UNION {[1..n -> BatchElements] : n \in 0..MaxBatch}

\* A client is about to call validateVectorData(vectors, expectedSize).
ValidationInit ==
    /\ store = << >>
    /\ dimensionCache = << >>
    /\ textProcessor = TextProcessor(DefaultChunkSize, DefaultChunkOverlap)
    /\ inv = [i \in Slots |-> IdleSlot]
    /\ \E vectors \in Batches, expectedSize \in ExpectedSizes :
          call = [fn |-> "validateVectorData", vectors |-> vectors,
                  expectedSize |-> expectedSize, verdict |-> None]

\* The call returns its verdict.
ValidateCall ==
    /\ call.fn = "validateVectorData"
    /\ call.verdict = None
    /\ call' = [call EXCEPT !.verdict =
                    Some(validateVectorData(call.vectors, call.expectedSize))]
    /\ UNCHANGED << store, dimensionCache, textProcessor, inv >>

ValidationNext == ValidateCall

ValidationSpec == ValidationInit /\ [][ValidationNext]_vars

\* -------------------------------------------------------------------------
\* Direct use of the embedding services: a client builds a service with the
\* factory and calls generateEmbeddings on it
\* -------------------------------------------------------------------------

\* Largest number of texts handed to generateEmbeddings.
MaxTexts == 2

\* The kinds a client asks the factory for: the four it knows and one it
\* does not.
ProviderKinds == EmbeddingServices \cup {"cohere"}

\* The dimension cache the client's process starts with: empty, or holding a
\* size detected earlier.
ClientCaches == {<< >>, [k \in {ModelKey} |-> 3]}

\* this._vectorSize === null
NeedsResolutionNever(vectorSize) == FALSE

NeedsResolution(vectorSize) == vectorSize = None

\* The client is about to call the factory.  `build` says which
\* OllamaEmbeddingService the factory was built with, `warm` whether the
\* client initializes the vector size before it generates (as
\* createAndInitializeEmbeddingService does) and `texts` how many texts it
\* passes to generateEmbeddings; `lazy` records that generateEmbeddings was
\* called on an instance whose vector size was not initialized.
ProviderInit ==
    /\ store = << >>
    /\ dimensionCache \in ClientCaches
    /\ textProcessor = TextProcessor(DefaultChunkSize, DefaultChunkOverlap)
    /\ inv = [i \in Slots |-> IdleSlot]
    /\ call \in {[fn |-> "provider", pc |-> "new",
                   config |-> [type |-> type, apiKey |-> apiKey],
                   build |-> build, warm |-> warm, texts |-> n,
                   instance |-> None, vectorSize |-> None, lazy |-> FALSE, then |-> "none",
                   probes |-> 0, calls |-> 0, asked |-> << >>, embeddings |-> << >>,
                   result |-> None] :
                      type \in ProviderKinds, apiKey \in BOOLEAN,
                      build \in {"dynamic", "sequential"}, warm \in BOOLEAN,
                      n \in 0..MaxTexts}

\* The embedding request is sent to the back end.
Request(c) == [c EXCEPT !.pc = "requesting", !.calls = @ + 1]

\* What follows once the vector size is known: the embedding request of the
\* generateEmbeddings call that asked for it, or the return to the client.
Resolved(c) == IF c.then = "generate" THEN Request(c) ELSE [c EXCEPT !.pc = "built"]

\* initializeVectorSize up to its await: a cached size is taken, a miss sends
\* the probe.
Resolve(c) ==
    IF CacheHit(CacheGet(dimensionCache, ModelKey))
    THEN Resolved([c EXCEPT !.vectorSize = CacheGet(dimensionCache, ModelKey)])
    ELSE [c EXCEPT !.pc = "probing", !.probes = @ + 1]

\* createEmbeddingService(config)
CreateService ==
    /\ call.fn = "provider"
    /\ call.pc = "new"
    /\ LET made == IF call.build = "sequential"
                   THEN createEmbeddingServiceStatic(call.config)
                   ELSE createEmbeddingService(call.config)
       IN IF ~made.ok
          THEN call' = [call EXCEPT !.pc = "done", !.result = Some(made)]
          ELSE call' = [call EXCEPT
                          !.pc = IF call.warm /\ made.value[1].initializes
                                 THEN "init" ELSE "built",
                          !.instance = made.value,
                          !.vectorSize = made.value[1].vectorSize]
    /\ UNCHANGED << store, dimensionCache, textProcessor, inv >>

\* createAndInitializeEmbeddingService: await service.initializeVectorSize()
InitializeCall ==
    /\ call.fn = "provider"
    /\ call.pc = "init"
    /\ call' = Resolve([call EXCEPT !.then = "return"])
    /\ UNCHANGED << store, dimensionCache, textProcessor, inv >>

\* generateEmbeddings(texts) up to its first await.
GenerateCall ==
    /\ call.fn = "provider"
    /\ call.pc = "built"
    /\ call' =
          IF call.instance[1].type = "ollama_sequential"
          THEN IF call.texts = 0
               THEN [call EXCEPT !.pc = "done", !.result = Some(Returned(<< >>))]
               ELSE [call EXCEPT !.pc = "asking", !.asked = << 1 >>, !.calls = 1]
          ELSE LET began == [call EXCEPT
                                !.lazy = call.instance[1].initializes
                                         /\ call.vectorSize = None,
                                !.then = "generate"]
               IN IF call.instance[1].initializes /\ NeedsResolution(call.vectorSize)
                  THEN Resolve(began)
                  ELSE Request(began)
    /\ UNCHANGED << store, dimensionCache, textProcessor, inv >>

\* initializeVectorSize after detectModelDimensions has answered, with a test
\* embedding of the given length or not at all (size = None).
ProbeAnswer(size) ==
    /\ call.fn = "provider"
    /\ call.pc = "probing"
    /\ IF size = None
       THEN /\ call' = [call EXCEPT
                          !.pc = "done",
                          !.result = Some(Threw("Failed to detect vector dimensions"))]
            /\ UNCHANGED dimensionCache
       ELSE /\ dimensionCache' = CacheSet(dimensionCache, ModelKey, size[1])
            /\ call' = Resolved([call EXCEPT !.vectorSize = size])
    /\ UNCHANGED << store, textProcessor, inv >>

\* generateEmbeddings of a service with a batch endpoint: the back end has
\* answered.
GenerateAnswer(answer) ==
    /\ call.fn = "provider"
    /\ call.pc = "requesting"
    /\ call' = [call EXCEPT
                   !.pc = "done",
                   !.result = Some(generateEmbeddings(call.instance[1].type, answer,
                                                      call.vectorSize))]
    /\ UNCHANGED << store, dimensionCache, textProcessor, inv >>

\* What the back end of the sequential service answers to the request for one
\* text: nothing, a body without an embedding array, or an embedding, of the
\* service's vector size or not.
SequentialAnswers ==
    {Unreachable, Malformed,
     Embeddings(<< ConstVec(OllamaStaticVectorSize, Num(1)) >>),
     Embeddings(<< ConstVec(1, Num(1)) >>)}

\* A sequential service that goes on with the next text after a failed
\* request instead of throwing.
SequentialAnswerSkipping(answer) ==
    /\ call.fn = "provider"
    /\ call.pc = "asking"
    /\ call' =
          LET embeddings == IF answer.status \in {"unreachable", "malformed"}
                            THEN call.embeddings
                            ELSE Append(call.embeddings, answer.embeddings[1])
          IN IF Len(call.asked) = call.texts
             THEN [call EXCEPT !.pc = "done", !.embeddings = embeddings,
                               !.result = Some(Returned(embeddings))]
             ELSE [call EXCEPT !.embeddings = embeddings,
                               !.asked = Append(@, Len(@) + 1),
                               !.calls = @ + 1]
    /\ UNCHANGED << store, dimensionCache, textProcessor, inv >>

\* generateEmbeddings of the sequential service: the back end has answered the
\* request for one text; the embedding is pushed and the next text is sent.
SequentialAnswer(answer) ==
    /\ call.fn = "provider"
    /\ call.pc = "asking"
    /\ call' =
          IF answer.status = "unreachable"
          THEN [call EXCEPT !.pc = "done", !.result = Some(Threw("request failed"))]
          ELSE IF answer.status = "malformed"
          THEN [call EXCEPT !.pc = "done",
                            !.result = Some(Threw("Invalid response from Ollama API"))]
          ELSE LET embeddings == Append(call.embeddings, answer.embeddings[1])
               IN IF Len(call.asked) = call.texts
                  THEN [call EXCEPT !.pc = "done", !.embeddings = embeddings,
                                    !.result = Some(Returned(embeddings))]
                  ELSE [call EXCEPT !.embeddings = embeddings,
                                    !.asked = Append(@, Len(@) + 1),
                                    !.calls = @ + 1]
    /\ UNCHANGED << store, dimensionCache, textProcessor, inv >>

\* The answers of the back end to the embedding request the client's service
\* has sent.
ClientAnswers ==
    IF call.fn = "provider" /\ call.pc = "requesting" /\ call.vectorSize # None
    THEN Answers(call.texts, call.vectorSize[1], call.instance[1].type)
    ELSE {}

ProviderNext ==
    \/ CreateService
    \/ InitializeCall
    \/ GenerateCall
    \/ \E size \in ProbeAnswers : ProbeAnswer(size)
    \/ \E answer \in ClientAnswers : GenerateAnswer(answer)
    \/ \E answer \in SequentialAnswers : SequentialAnswer(answer)

ProviderSpec == ProviderInit /\ [][ProviderNext]_vars

\* -------------------------------------------------------------------------
\* Direct calls of the vector-store client (DefaultQdrantService)
\* -------------------------------------------------------------------------

\* The operations of the client.
StoreOperations ==
    {"listCollections", "createCollection", "addDocuments", "deleteCollection",
     "search", "collectionExists", "getCollectionInfo"}

\* The vector sizes the client's calls carry, and the stores they meet: empty,
\* or holding the collection with one of these sizes.
ClientSizes == {2, 3}

ClientStores ==
    {<< >>} \cup {[c \in Collections |-> [size |-> size, points |-> points]] :
                    size \in ClientSizes, points \in 0..MaxPoints}

\* The message of the error the Qdrant client library rejects a request with.
BackingFailure == "request rejected"

\* handleQdrantError: throws `Failed to ${operation}: ${errorMessage}`.
handleQdrantError(message, operation) ==
    Threw([operation |-> operation, message |-> message])

\* Whether the request of the operation succeeds: the store is reachable
\* (ok) and accepts it.
BackingAccepts(op, name, size, ok) ==
    /\ ok
    /\ CASE op = "createCollection" -> StoreCreates(name, size)
         [] op = "addDocuments" -> StoreUpserts(name, << Some(size) >>)
         [] op = "search" -> StoreSearches(name, Some(size))
         [] op = "getCollectionInfo" -> name \in DOMAIN store
         [] OTHER -> TRUE

\* listCollections
listCollections(ok) ==
    IF BackingAccepts("listCollections", "", 0, ok)
    THEN Returned(DOMAIN store)
    ELSE handleQdrantError(BackingFailure, "list collections")

\* collectionExists: a failure of listCollections is caught and answered
\* with false.
collectionExists(name, ok) ==
    IF listCollections(ok).ok
    THEN Returned(name \in listCollections(ok).value[1])
    ELSE Returned(FALSE)

\* getCollectionInfo: a failure of the request is caught and answered with
\* null.
getCollectionInfo(name, ok) ==
    IF BackingAccepts("getCollectionInfo", name, 0, ok)
    THEN Returned(Some(store[name].size))
    ELSE Returned(None)

\* The operations that return nothing: createCollection, addDocuments,
\* deleteCollection; and search, which returns its hits.
StoreCommand(op, name, size, ok) ==
    IF BackingAccepts(op, name, size, ok)
    THEN Returned(IF op = "search" THEN store[name].points ELSE 0)
    ELSE handleQdrantError(BackingFailure,
            CASE op = "createCollection" -> "create collection"
              [] op = "addDocuments" -> "add documents"
              [] op = "deleteCollection" -> "delete collection"
              [] OTHER -> "search collection")

\* What the operation returns or throws.
StoreOutcome(op, name, size, ok) ==
    CASE op = "listCollections" -> listCollections(ok)
      [] op = "collectionExists" -> collectionExists(name, ok)
      [] op = "getCollectionInfo" -> getCollectionInfo(name, ok)
      [] OTHER -> StoreCommand(op, name, size, ok)

\* The store after the request of the operation.
StoreAfter(op, name, size, ok) ==
    IF ~BackingAccepts(op, name, size, ok) THEN store
    ELSE CASE op = "createCollection" -> StoreWith(name, size, 0)
           [] op = "addDocuments" -> StoreWith(name, size, store[name].points + 1)
           [] op = "deleteCollection" -> StoreWithout(name)
           [] OTHER -> store

\* A client is about to call one operation of the store client.
StoreClientInit ==
    /\ store \in ClientStores
    /\ dimensionCache = << >>
    /\ textProcessor = TextProcessor(DefaultChunkSize, DefaultChunkOverlap)
    /\ inv = [i \in Slots |-> IdleSlot]
    /\ call \in {[fn |-> "store", op |-> op, name |-> name, size |-> size,
                   requests |-> 0, failed |-> FALSE, result |-> None] :
                      op \in StoreOperations, name \in Collections,
                      size \in ClientSizes}

\* The operation is called: it sends its one request to the store and
\* awaits the answer.
StoreRequest ==
    /\ call.fn = "store"
    /\ call.requests = 0
    /\ call' = [call EXCEPT !.requests = 1]
    /\ UNCHANGED << store, dimensionCache, textProcessor, inv >>

\* The store has answered the request: the operation returns or throws.
StoreCall(ok) ==
    /\ call.fn = "store"
    /\ call.requests = 1
    /\ call.result = None
    /\ call' = [call EXCEPT
                   !.failed = ~BackingAccepts(call.op, call.name, call.size, ok),
                   !.result = Some(StoreOutcome(call.op, call.name, call.size, ok))]
    /\ store' = StoreAfter(call.op, call.name, call.size, ok)
    /\ UNCHANGED << dimensionCache, textProcessor, inv >>

StoreClientNext ==
    \/ StoreRequest
    \/ \E ok \in BOOLEAN : StoreCall(ok)

StoreClientSpec == StoreClientInit /\ [][StoreClientNext]_vars

\* -------------------------------------------------------------------------
\* Tool-call dispatch: the CallTool request handler checks the shape of the
\* arguments and hands the call to a handler, or throws a protocol fault
\* -------------------------------------------------------------------------

\* The tools the server serves.
ToolNames == {"list_collections", "add_documents", "search", "delete_collection"}

\* The names a request carries: the four tools and one the server does not
\* know.
RequestNames == ToolNames \cup {"drop_collection"}

\* A property of the arguments object as typeof sees it.
JsUndefined == [t |-> "undefined", v |-> "", n |-> 0]
JsString(s) == [t |-> "string", v |-> s, n |-> 0]
JsNumber(n) == [t |-> "number", v |-> "", n |-> n]

\* The numbers a request carries: one that is falsy and one that is not.
RequestNumbers == {JsNumber(0), JsNumber(10)}

\* request.params.arguments when it is undefined, null or not an object.
NoArguments ==
    [isObject |-> FALSE, filePath |-> JsUndefined, query |-> JsUndefined,
     collection |-> JsUndefined, embeddingService |-> JsUndefined,
     chunkSize |-> JsUndefined, chunkOverlap |-> JsUndefined,
     limit |-> JsUndefined]

\* The arguments a request carries: every property may be missing or of the
\* wrong type, the service may be a kind the server does not know.
RequestArguments ==
    {NoArguments} \cup
    [isObject : {TRUE},
     filePath : {JsUndefined, JsString("a.txt")},
     query : {JsUndefined, JsString("q")},
     collection : {JsUndefined, JsNumber(10)} \cup {JsString(c) : c \in Collections},
     embeddingService : {JsUndefined, JsNumber(10)}
                        \cup {JsString(k) : k \in ProviderKinds},
     chunkSize : {JsUndefined, JsString("10")} \cup RequestNumbers,
     chunkOverlap : {JsUndefined, JsString("10")} \cup RequestNumbers,
     limit : {JsUndefined, JsNumber(10), JsString("10")}]

\* a.x === undefined || typeof a.x === 'number'
OptionalNumber(x) == x.t \in {"undefined", "number"}

\* typeof a.embeddingService === 'string' && [...].includes(a.embeddingService)
IsServiceKindAnyString(x) == x.t = "string"

IsServiceKind(x) == x.t = "string" /\ x.v \in EmbeddingServices

isAddDocumentsArgs(args) ==
    /\ args.isObject
    /\ args.filePath.t = "string"
    /\ args.collection.t = "string"
    /\ IsServiceKind(args.embeddingService)
    /\ OptionalNumber(args.chunkSize)
    /\ OptionalNumber(args.chunkOverlap)

isSearchArgs(args) ==
    /\ args.isObject
    /\ args.query.t = "string"
    /\ args.collection.t = "string"
    /\ IsServiceKind(args.embeddingService)
    /\ OptionalNumber(args.limit)

isDeleteCollectionArgs(args) ==
    /\ args.isObject
    /\ args.collection.t = "string"

\* throw new McpError(code, message)
Fault(code, message) ==
    [fault |-> Some([code |-> code, message |-> message]), handler |-> None]

\* return this.handleX(request.params.arguments)
Handled(name) == [fault |-> None, handler |-> Some(name)]

\* The switch of the CallTool request handler.
CallToolOutcome(name, args) ==
    CASE name = "list_collections" -> Handled("handleListCollections")
      [] name = "add_documents" ->
            IF ~isAddDocumentsArgs(args)
            THEN Fault("InvalidParams", "Invalid arguments for add_documents")
            ELSE Handled("handleAddDocuments")
      [] name = "search" ->
            IF ~isSearchArgs(args)
            THEN Fault("InvalidParams", "Invalid arguments for search")
            ELSE Handled("handleSearch")
      [] name = "delete_collection" ->
            IF ~isDeleteCollectionArgs(args)
            THEN Fault("InvalidParams", "Invalid arguments for delete_collection")
            ELSE Handled("handleDeleteCollection")
      [] OTHER -> Fault("MethodNotFound", "Unknown tool")

\* A request has arrived and is not dispatched yet.
DispatchInit ==
    /\ store = << >>
    /\ dimensionCache = << >>
    /\ textProcessor = TextProcessor(DefaultChunkSize, DefaultChunkOverlap)
    /\ inv = [i \in Slots |-> IdleSlot]
    /\ call \in {[fn |-> "callTool", name |-> name, arguments |-> args,
                   outcome |-> None] :
                      name \in RequestNames, args \in RequestArguments}

\* An optional numeric argument as the handler reads it.
OptionalArg(x) == IF x.t = "number" THEN Some(x.n) ELSE None

\* The invocation the chosen handler has started when the request handler
\* returns its promise: the handler has run up to its first await.
HandlerSlot(handler, args, readOk) ==
    CASE handler = "handleListCollections" -> ListSlot
      [] handler = "handleAddDocuments" ->
            AddSlot(args.collection.v, args.embeddingService.v,
                    OptionalArg(args.chunkSize), OptionalArg(args.chunkOverlap),
                    readOk)
      [] handler = "handleSearch" ->
            SearchSlot(args.collection.v, args.embeddingService.v)
      [] OTHER -> DeleteSlot(args.collection.v)

\* The request handler runs its switch: the fault is thrown and nothing else
\* is touched, or the handler is called and runs up to its first await in
\* the same stretch (handleAddDocuments reconfigures the text processor and
\* reads the file: readOk).
CallTool(readOk) ==
    /\ call.fn = "callTool"
    /\ call.outcome = None
    /\ LET outcome == CallToolOutcome(call.name, call.arguments)
       IN /\ call' = [call EXCEPT !.outcome = Some(outcome)]
          /\ IF outcome.handler = None
             THEN UNCHANGED << textProcessor, inv >>
             ELSE /\ inv' = [inv EXCEPT ![1] = HandlerSlot(outcome.handler[1],
                                                          call.arguments, readOk)]
                  /\ textProcessor' =
                        IF outcome.handler[1] = "handleAddDocuments"
                        THEN Configured(OptionalArg(call.arguments.chunkSize),
                                        OptionalArg(call.arguments.chunkOverlap)).processor
                        ELSE textProcessor
    /\ UNCHANGED << store, dimensionCache >>

DispatchNext == \E readOk \in BOOLEAN : CallTool(readOk)

DispatchSpec == DispatchInit /\ [][DispatchNext]_vars

\* -------------------------------------------------------------------------
\* Direct use of the compatibility validator: a client calls
\* validateEmbeddingCompatibility with a service it built itself, which for
\* the Ollama service may not have its vector size initialized
\* -------------------------------------------------------------------------

\* The services a client passes: what createEmbeddingService returns (the
\* Ollama service with _vectorSize null) and the Ollama service after
\* initializeVectorSize found one of the client's sizes.
ClientServices ==
    {createEmbeddingService([type |-> type, apiKey |-> TRUE]).value[1] :
        type \in EmbeddingServices}
    \cup {[type |-> "ollama", vectorSize |-> Some(size), initializes |-> TRUE] :
            size \in ClientSizes}

\* The dimension cache of the process in which the client holds the service:
\* initializeVectorSize leaves the size it gives an Ollama service in the
\* cache, under the key of the model.
ServiceCache(service) ==
    IF service.initializes /\ service.vectorSize # None
    THEN [k \in {ModelKey} |-> service.vectorSize[1]]
    ELSE << >>

\* get vectorSize(): the Ollama getter throws while _vectorSize is null; the
\* other services hold a plain field.
ReadVectorSize(vectorSize) ==
    IF vectorSize = None
    THEN Threw("Vector size not initialized. Call initializeVectorSize() first.")
    ELSE Returned(vectorSize[1])

\* A return statement of validateEmbeddingCompatibility.  Every verdict is
\* built with embeddingService.vectorSize; when the getter throws, control
\* goes to the catch block, whose verdict is built with
\* embeddingService.vectorSize as well, so the getter throws again and the
\* error leaves the function.  collectionInfo is None when getCollectionInfo
\* answered null, exists is what collectionExists answered.
CompatReturn(vectorSize, exists, collectionInfo) ==
    IF ~ReadVectorSize(vectorSize).ok
    THEN Threw(ReadVectorSize(vectorSize).error)
    ELSE IF ~exists
    THEN Returned(VerdictNoCollection(vectorSize[1]))
    ELSE IF collectionInfo = None
    THEN Returned(VerdictNoInfo(vectorSize[1]))
    ELSE Returned(VerdictForInfo(collectionInfo[1], vectorSize[1]))

\* A client is about to call validateEmbeddingCompatibility(collection,
\* embeddingService).
CompatInit ==
    /\ store \in ClientStores
    /\ textProcessor = TextProcessor(DefaultChunkSize, DefaultChunkOverlap)
    /\ inv = [i \in Slots |-> IdleSlot]
    /\ call \in {[fn |-> "validateEmbeddingCompatibility", pc |-> "exists",
                   collection |-> name, service |-> service,
                   listed |-> FALSE, fetched |-> FALSE, failures |-> 0,
                   result |-> None] :
                      name \in Collections, service \in ClientServices}
    /\ dimensionCache = ServiceCache(call.service)

\* collectionExists has answered: false when the listing failed (ok = FALSE)
\* or does not hold the name.
ClientCompatExists(ok) ==
    /\ call.fn = "validateEmbeddingCompatibility"
    /\ call.pc = "exists"
    /\ LET exists == collectionExists(call.collection, ok).value[1]
           saw == [call EXCEPT !.listed = ok,
                               !.failures = IF ok THEN @ ELSE @ + 1]
       IN IF ~exists
          THEN call' = [saw EXCEPT
                          !.pc = "done",
                          !.result = Some(CompatReturn(call.service.vectorSize,
                                                       FALSE, None))]
          ELSE call' = [saw EXCEPT !.pc = "info"]
    /\ UNCHANGED << store, dimensionCache, textProcessor, inv >>

\* getCollectionInfo has answered: null when the call failed (ok = FALSE).
ClientCompatInfo(ok) ==
    /\ call.fn = "validateEmbeddingCompatibility"
    /\ call.pc = "info"
    /\ LET collectionInfo == getCollectionInfo(call.collection, ok).value[1]
       IN call' = [call EXCEPT
                      !.pc = "done",
                      !.fetched = collectionInfo # None,
                      !.failures = IF ok THEN @ ELSE @ + 1,
                      !.result = Some(CompatReturn(call.service.vectorSize,
                                                   TRUE, collectionInfo))]
    /\ UNCHANGED << store, dimensionCache, textProcessor, inv >>

CompatNext ==
    \/ \E ok \in BOOLEAN : ClientCompatExists(ok)
    \/ \E ok \in BOOLEAN : ClientCompatInfo(ok)

CompatSpec == CompatInit /\ [][CompatNext]_vars

\* -------------------------------------------------------------------------
\* Progress: the server handling one request at a time (the chunk arguments
\* omitted), or a client using the embedding services directly, with every
\* external call answered in the end and every continuation that is ready to
\* run being run
\* -------------------------------------------------------------------------

\* The process serves tool invocations and makes no direct library call.
Serving == call = NoCall

LiveInit == Init \/ ProviderInit

LiveNext ==
    \/ \E i \in Slots :
        \/ Serving /\ Alone(i) /\ ListStart(i)
        \/ \E ok \in BOOLEAN : ListCollections(i, ok)
        \/ \E name \in Collections : Serving /\ Alone(i) /\ DeleteStart(i, name)
        \/ \E ok \in BOOLEAN : DeleteCollection(i, ok)
        \/ \E name \in Collections, type \in EmbeddingServices, readOk \in BOOLEAN :
              Serving /\ Alone(i) /\ AddStart(i, name, type, None, None, readOk)
        \/ \E n \in 0..MaxChunks : AddBuild(i, n)
        \/ \E name \in Collections, type \in EmbeddingServices :
              Serving /\ Alone(i) /\ SearchStart(i, name, type)
        \/ \E size \in ProbeAnswers : ProbeReturn(i, size)
        \/ \E ok \in BOOLEAN : CompatExists(i, ok)
        \/ \E ok \in BOOLEAN : CompatInfo(i, ok)
        \/ /\ inv[i].pc = "embed"
           /\ \E outcome \in EmbedOutcomes[EmbedKey(inv[i])] : Embed(i, outcome)
        \/ \E ok \in BOOLEAN : CreateCollection(i, ok)
        \/ \E ok \in BOOLEAN : Upsert(i, ok)
        \/ \E ok \in BOOLEAN, hits \in 0..MaxPoints : StoreSearch(i, ok, hits)
        \/ Return(i)
    \/ CreateService
    \/ InitializeCall
    \/ GenerateCall
    \/ \E size \in ProbeAnswers : ProbeAnswer(size)
    \/ \E answer \in ClientAnswers : GenerateAnswer(answer)
    \/ \E answer \in SequentialAnswers : SequentialAnswer(answer)

\* Every external call returns or fails in the end and the event loop runs
\* the continuation: a step that can be taken is taken.
LiveSpec == LiveInit /\ [][LiveNext]_vars /\ WF_vars(LiveNext)

\* -------------------------------------------------------------------------
\* Properties
\* -------------------------------------------------------------------------

InFlight(i) == inv[i].tool \in {"add_documents", "search"}

\* C1: two concurrent build-and-ready calls for the same key issue at most
\* one probe: no two invocations wait for a probe of the key at the same time.
C1_AtMostOneProbeInFlight ==
    \A i, j \in Slots : i # j => ~(inv[i].pc = "probe" /\ inv[j].pc = "probe")

\* C2: once a dimension is cached for the key, no step changes the cached
\* value.
CachedDimensionKept ==
    ModelKey \in DOMAIN dimensionCache =>
        /\ ModelKey \in DOMAIN dimensionCache'
        /\ dimensionCache'[ModelKey] = dimensionCache[ModelKey]

C2_CachedDimensionNeverChanges == [][CachedDimensionKept]_vars

\* C3: a search whose collection was absent when the compatibility check
\* looked returns "No results found." straight after the check: it goes on to
\* no embedding call, no store search call and no store mutation.
C3_AbsentCollectionSearchShortCircuits ==
    \A i \in Slots :
        (inv[i].tool = "search" /\ inv[i].seen # None /\ ~inv[i].seen[1].existed) =>
            /\ inv[i].pc = "done"
            /\ inv[i].muts = 0
            /\ ~inv[i].result[1].isError
            /\ inv[i].result[1].text = "No results found."

\* C4: every upsert that reaches an existing collection carries only vectors
\* whose length is the dimension the collection has at that moment.
UpsertMatches ==
    \A i \in Slots :
        (inv[i].pc = "upsert" /\ inv'[i].pc # "upsert"
         /\ inv[i].collection \in DOMAIN store) =>
            \A k \in 1..Len(inv[i].vectors) :
                inv[i].vectors[k] = Some(store[inv[i].collection].size)

C4_UpsertMatchesCollectionDimension == [][UpsertMatches]_vars

\* C5: in add_documents and search, an invocation whose compatibility verdict
\* or vector-batch verdict is negative has returned, has issued no store
\* mutation, and its result is an error that lists what the verdict reported.
C5_NegativeVerdictEndsBeforeMutation ==
    \A i \in Slots :
        InFlight(i) =>
            /\ (inv[i].compat # None /\ ~inv[i].compat[1].isValid) =>
                  /\ inv[i].pc = "done"
                  /\ inv[i].muts = 0
                  /\ inv[i].result[1].isError
                  /\ inv[i].result[1].errors = << inv[i].compat[1].action >>
                  /\ inv[i].result[1].suggested = inv[i].compat[1].suggestedActions
            /\ (inv[i].validation # None /\ ~inv[i].validation[1].isValid) =>
                  /\ inv[i].pc = "done"
                  /\ inv[i].muts = 0
                  /\ inv[i].result[1].isError
                  /\ inv[i].result[1].errors = inv[i].validation[1].errors
                  /\ Len(inv[i].result[1].errors) >= 1

\* An add_documents invocation has returned the errors of a negative
\* vector-batch verdict.
C5_Witness ==
    \E i \in Slots :
        /\ inv[i].tool = "add_documents"
        /\ inv[i].pc = "done"
        /\ inv[i].validation # None
        /\ ~inv[i].validation[1].isValid
        /\ inv[i].result[1].text = "Vector validation failed"

\* C6: an add_documents call that omits chunkSize and chunkOverlap splits
\* with the default settings.
C6_OmittedChunkArgsSplitWithDefaults ==
    \A i \in Slots :
        (inv[i].split # None
         /\ inv[i].split[1].sizeArg = None /\ inv[i].split[1].overlapArg = None) =>
            /\ inv[i].split[1].chunkSize = DefaultChunkSize
            /\ inv[i].split[1].chunkOverlap = DefaultChunkOverlap

\* The step in which invocation i calls createAndInitializeEmbeddingService.
BuildStep(i) ==
    \/ inv[i].pc = "split" /\ inv'[i].pc # "split"
    \/ inv[i].pc = "idle" /\ inv'[i].tool = "search"

\* C7: once a dimension D has been resolved for the key, a later
\* build-and-ready call for it sends no probe and yields a provider of
\* dimension D.
ResolvedKeyReused ==
    \A i \in Slots :
        (BuildStep(i) /\ inv'[i].service = "ollama"
         /\ ModelKey \in DOMAIN dimensionCache) =>
            /\ inv'[i].pc = "exists"
            /\ inv'[i].vectorSize = Some(dimensionCache[ModelKey])

C7_ResolvedKeyIsNeverProbedAgain == [][ResolvedKeyReused]_vars

\* C8: the compatibility check of a collection that the existence check did
\* not find returns valid = true, action = create_collection, expecting the
\* provider's dimension; it never returns an error verdict for it.
C8_AbsentCollectionYieldsCreate ==
    \A i \in Slots :
        (inv[i].seen # None /\ ~inv[i].seen[1].existed) =>
            /\ inv[i].compat # None
            /\ inv[i].compat[1].isValid
            /\ inv[i].compat[1].action = "create_collection"
            /\ inv[i].compat[1].expectedVectorSize = inv[i].vectorSize[1]

\* A check of an absent collection, listed successfully, has returned for a
\* provider of the largest static size.
C8_Witness ==
    \E i \in Slots :
        /\ inv[i].seen # None
        /\ inv[i].seen[1].listed
        /\ ~inv[i].seen[1].existed
        /\ inv[i].compat # None
        /\ inv[i].vectorSize = Some(OpenAIVectorSize)

\* C9: the compatibility check that retrieved dimension D of an existing
\* collection returns valid = true, action = compatible when the provider's
\* dimension is D, and valid = false, action = size_mismatch with exactly
\* three suggested actions otherwise.
C9_RetrievedDimensionDecides ==
    \A i \in Slots :
        (inv[i].seen # None /\ inv[i].seen[1].fetched) =>
            /\ inv[i].compat # None
            /\ IF inv[i].seen[1].size = inv[i].vectorSize[1]
               THEN /\ inv[i].compat[1].isValid
                    /\ inv[i].compat[1].action = "compatible"
               ELSE /\ ~inv[i].compat[1].isValid
                    /\ inv[i].compat[1].action = "size_mismatch"
                    /\ inv[i].compat[1].suggestedActions # None
                    /\ Len(inv[i].compat[1].suggestedActions[1]) = 3
                    /\ inv[i].compat[1].actualVectorSize = Some(inv[i].seen[1].size)

\* A check has found a collection larger than the provider's vectors.
C9_Witness ==
    \E i \in Slots :
        /\ inv[i].seen # None
        /\ inv[i].seen[1].fetched
        /\ inv[i].seen[1].size > inv[i].vectorSize[1]
        /\ inv[i].compat # None
        /\ inv[i].compat[1].action = "size_mismatch"

\* C10: the check fetches metadata only after the existence check has found
\* the collection, compares dimensions only when the metadata was retrieved,
\* and returns valid = false, action = error when it was not.
C10_ExistenceThenMetadataThenCompare ==
    \A i \in Slots :
        inv[i].seen # None =>
            /\ inv[i].pc = "info" =>
                  (inv[i].seen[1].listed /\ inv[i].seen[1].existed
                   /\ inv[i].compat = None)
            /\ (inv[i].pc # "info" /\ inv[i].seen[1].listed /\ inv[i].seen[1].existed
                /\ ~inv[i].seen[1].fetched) =>
                  /\ inv[i].compat # None
                  /\ ~inv[i].compat[1].isValid
                  /\ inv[i].compat[1].action = "error"
            /\ (inv[i].compat # None
                /\ inv[i].compat[1].action \in {"compatible", "size_mismatch"}) =>
                  inv[i].seen[1].fetched

\* A check of an existing collection whose metadata could not be retrieved
\* has returned, for a provider of a dynamically detected size.
C10_Witness ==
    \E i \in Slots :
        /\ inv[i].seen # None
        /\ inv[i].seen[1].listed
        /\ inv[i].seen[1].existed
        /\ ~inv[i].seen[1].fetched
        /\ inv[i].service = "ollama"
        /\ inv[i].compat # None
        /\ inv[i].compat[1].action = "error"

\* A direct call of validateVectorData has returned.
Validated == call.fn = "validateVectorData" /\ call.verdict # None

\* The vector is an array of `size` entries, each a number that is not NaN.
WellFormed(vector, size) ==
    /\ vector.isArray
    /\ Len(vector.elems) = size
    /\ \A j \in 1..Len(vector.elems) : vector.elems[j].t = "number"

\* C11: for a non-empty batch whose elements are all arrays of the expected
\* length with numeric entries, validateVectorData returns valid = true and
\* an empty error list.
C11_WellFormedBatchIsValid ==
    (/\ Validated
     /\ Len(call.vectors) >= 1
     /\ \A k \in 1..Len(call.vectors) : WellFormed(call.vectors[k], call.expectedSize)) =>
        /\ call.verdict[1].isValid
        /\ call.verdict[1].errors = << >>

\* A batch of two well-formed vectors of two entries, one of them of
\* absolute value 150, has been found valid.
C11_Witness ==
    /\ Validated
    /\ call.expectedSize = 2
    /\ Len(call.vectors) = 2
    /\ \A k \in 1..2 : WellFormed(call.vectors[k], 2)
    /\ call.vectors[2].elems[1] = Num(150)
    /\ call.verdict[1].isValid

\* The (1-based) positions of the vectors whose length is not the expected one.
Offending == {k \in 1..Len(call.vectors) : Len(call.vectors[k].elems) # call.expectedSize}

\* C12: for a batch of arrays of numeric entries and mixed lengths, the
\* errors are exactly one per position whose length differs from the expected
\* one, naming the index, the actual and the expected length; every such
\* position is reported in the one call and no other position is.
C12_OneSizeErrorPerOffendingIndex ==
    (/\ Validated
     /\ Len(call.vectors) >= 1
     /\ \A k \in 1..Len(call.vectors) :
           WellFormed(call.vectors[k], Len(call.vectors[k].elems))) =>
        LET errors == call.verdict[1].errors
        IN /\ Len(errors) = Cardinality(Offending)
           /\ \A k \in Offending :
                 \E j \in 1..Len(errors) :
                    errors[j] = [msg |-> "has size", index |-> k - 1,
                                 a |-> Len(call.vectors[k].elems),
                                 b |-> call.expectedSize]
           /\ \A j \in 1..Len(errors) :
                 errors[j].msg = "has size" /\ errors[j].index + 1 \in Offending

\* A batch of a too short and a too long numeric vector has been reported
\* with two errors.
C12_Witness ==
    /\ Validated
    /\ call.expectedSize = 1
    /\ Len(call.vectors) = 2
    /\ call.vectors[1] = Arr(<< >>)
    /\ call.vectors[2] = Arr(<< Num(1), Num(1) >>)
    /\ Len(call.verdict[1].errors) = 2

\* C13: validateVectorData of the empty batch is invalid and its errors
\* contain "No vectors provided", whatever the expected size.
C13_EmptyBatchIsInvalid ==
    (Validated /\ Len(call.vectors) = 0) =>
        /\ ~call.verdict[1].isValid
        /\ \E j \in 1..Len(call.verdict[1].errors) :
              call.verdict[1].errors[j].msg = "No vectors provided"

\* The empty batch has been checked against the expected size 2.
C13_Witness ==
    /\ Validated
    /\ Len(call.vectors) = 0
    /\ call.expectedSize = 2
    /\ ~call.verdict[1].isValid

\* The number of entries of the vector whose absolute value exceeds 100.
Beyond100(vector) ==
    Cardinality({j \in 1..Len(vector.elems) :
                    vector.elems[j].v > 100 \/ vector.elems[j].v < -100})

\* C14: in a batch of well-formed vectors, a vector with k >= 1 entries of
\* absolute value strictly greater than 100 gets exactly one warning, naming
\* its index and k; a vector whose entries all have absolute value at most
\* 100 gets none; the batch is valid and has no errors.
C14_ExtremeValuesWarnOnly ==
    (/\ Validated
     /\ Len(call.vectors) >= 1
     /\ \A k \in 1..Len(call.vectors) : WellFormed(call.vectors[k], call.expectedSize)) =>
        LET warnings == call.verdict[1].warnings
            warned == {k \in 1..Len(call.vectors) : Beyond100(call.vectors[k]) >= 1}
        IN /\ call.verdict[1].isValid
           /\ call.verdict[1].errors = << >>
           /\ Len(warnings) = Cardinality(warned)
           /\ \A k \in warned :
                 \E j \in 1..Len(warnings) :
                    warnings[j] = [msg |-> "values with absolute value > 100",
                                   index |-> k - 1,
                                   a |-> Beyond100(call.vectors[k]), b |-> 0]

\* The vector [150, 100] alone has been found valid with one warning that
\* names one value.
C14_Witness ==
    /\ Validated
    /\ call.expectedSize = 2
    /\ call.vectors = << Arr(<< Num(150), Num(100) >>) >>
    /\ call.verdict[1].isValid
    /\ Len(call.verdict[1].warnings) = 1
    /\ call.verdict[1].warnings[1].a = 1

\* C15: the verdict of validateVectorData is valid exactly when its error
\* list is empty, whatever its warnings.
C15_ValidIffNoErrors ==
    Validated => (call.verdict[1].isValid <=> Len(call.verdict[1].errors) = 0)

\* A verdict that carries warnings and no errors is valid.
C15_Witness ==
    /\ Validated
    /\ Len(call.verdict[1].warnings) >= 1
    /\ Len(call.verdict[1].errors) = 0
    /\ call.verdict[1].isValid

\* The steps of an add_documents invocation whose compatibility verdict asked
\* for the collection to be created.
IngestSteps ==
    \A i \in Slots :
        LET s == inv[i]
            t == inv'[i]
            name == s.collection
        IN (/\ s.tool = "add_documents"
            /\ s.chunks >= 1
            /\ s.compat # None
            /\ s.compat[1].action = "create_collection") =>
              /\ (s.pc = "embed" /\ t.pc \notin {"embed", "done"}) =>
                    /\ t.pc = "create"
                    /\ t.muts = 0
                    /\ Len(t.vectors) = s.chunks
              /\ (s.pc = "create" /\ t.pc # "create") =>
                    /\ t.muts = 1
                    /\ IF t.pc = "upsert"
                       THEN /\ name \in DOMAIN store'
                            /\ store'[name] = [size |-> s.vectorSize[1], points |-> 0]
                       ELSE /\ t.pc = "done"
                            /\ t.result[1].isError
              /\ (s.pc = "upsert" /\ t.pc # "upsert") =>
                    /\ s.muts = 1
                    /\ t.muts = 2
                    /\ t.pc = "done"
                    /\ ~t.result[1].isError =>
                          /\ Len(s.vectors) = s.chunks
                          /\ store'[name] = [size |-> s.vectorSize[1],
                                              points |-> s.chunks]
                          /\ t.result[1].text = "Successfully processed and added"
                          /\ t.result[1].count = s.chunks

\* C16: an add_documents invocation of N >= 1 chunks whose collection is
\* absent and whose provider of dimension D returns valid vectors issues
\* exactly one create-collection call, with dimension D, which completes
\* before its single upsert; the upsert carries N points and the success
\* message reports N chunks.
C16_IngestCreatesThenUpsertsOnce == [][IngestSteps]_vars

\* An ingest of two chunks into an absent collection has succeeded after one
\* create and one upsert.
C16_Witness ==
    \E i \in Slots :
        /\ inv[i].tool = "add_documents"
        /\ inv[i].pc = "done"
        /\ inv[i].compat # None
        /\ inv[i].compat[1].action = "create_collection"
        /\ ~inv[i].result[1].isError
        /\ inv[i].result[1].count = 2
        /\ inv[i].muts = 2
        /\ inv[i].collection \in DOMAIN store
        /\ store[inv[i].collection].points = 2

\* generateEmbeddings was called on an Ollama service whose vector size had
\* not been resolved.
Lazy == call.fn = "provider" /\ call.lazy

\* C17 (as the claim states it): generateEmbeddings called on a service whose
\* dimension has not been resolved fails with an error instead of returning
\* vectors.
C17_UnresolvedGenerateFails ==
    (Lazy /\ call.pc = "done") => ~call.result[1].ok

\* C17 (amended): generateEmbeddings called on a service whose dimension has
\* not been resolved resolves it first, from the cache or with one probe sent
\* before any embedding request; it fails without an embedding request when
\* the probe fails, and otherwise sends the request and returns only vectors
\* of the resolved dimension.
C17_UnresolvedGenerateResolvesFirst ==
    Lazy =>
        /\ call.pc \in {"probing", "requesting", "done"}
        /\ call.probes <= 1
        /\ call.pc = "probing" =>
              (call.probes = 1 /\ call.calls = 0 /\ call.result = None)
        /\ call.pc = "requesting" => (call.vectorSize # None /\ call.calls = 1)
        /\ call.pc = "done" =>
              IF call.vectorSize = None
              THEN /\ ~call.result[1].ok
                   /\ call.result[1].error = "Failed to detect vector dimensions"
                   /\ call.probes = 1
                   /\ call.calls = 0
              ELSE /\ call.calls = 1
                   /\ call.result[1].ok =>
                         \A k \in 1..Len(call.result[1].value[1]) :
                            Len(call.result[1].value[1][k].elems) = call.vectorSize[1]

\* generateEmbeddings, called before the dimension was resolved, has probed
\* the back end and returned two vectors.
C17_Witness ==
    /\ Lazy
    /\ call.pc = "done"
    /\ call.probes = 1
    /\ call.result[1].ok
    /\ Len(call.result[1].value[1]) = 2

\* C18: the factory fails, before any call to a back end, for a kind it does
\* not know and for openai and openrouter without a credential; it builds
\* ollama and fastembed without one.
C18_BadConfigFailsAtConstruction ==
    (call.fn = "provider" /\ call.pc # "new") =>
        /\ (\/ call.config.type \notin {"openai", "openrouter", "ollama", "fastembed"}
            \/ (call.config.type \in {"openai", "openrouter"} /\ ~call.config.apiKey)) =>
              /\ call.instance = None
              /\ call.pc = "done"
              /\ ~call.result[1].ok
              /\ call.calls = 0
              /\ call.probes = 0
        /\ call.config.type \in {"ollama", "fastembed"} => call.instance # None

\* The factory has refused to build openrouter without a credential.
C18_Witness ==
    /\ call.fn = "provider"
    /\ call.config = [type |-> "openrouter", apiKey |-> FALSE]
    /\ call.pc = "done"
    /\ call.instance = None
    /\ ~call.result[1].ok

\* C19: a generateEmbeddings call that returns returns as many vectors as it
\* was given texts, and the sequential service has sent one request per
\* text, in the order of the texts.
C19_GenerateReturnsOneVectorPerText ==
    (call.fn = "provider" /\ call.pc = "done" /\ call.result[1].ok) =>
        /\ Len(call.result[1].value[1]) = call.texts
        /\ call.instance[1].type = "ollama_sequential" =>
              /\ call.asked = [k \in 1..call.texts |-> k]
              /\ call.calls = call.texts

\* C20: an operation of the store client whose request failed throws an
\* error that carries the name of the operation and the message of the
\* failure, and has sent the request once.
C20_StoreFailureBecomesStoreError ==
    (call.fn = "store" /\ call.result # None /\ call.failed) =>
        /\ call.requests = 1
        /\ ~call.result[1].ok
        /\ call.result[1].error.message = BackingFailure
        /\ call.result[1].error.operation \in
              {"list collections", "create collection", "add documents",
               "delete collection", "search collection",
               "check collection", "get collection info"}

\* The call has been dispatched.
Dispatched == call.fn = "callTool" /\ call.outcome # None

\* The arguments pass the structural check of the tool, as the tool's input
\* schema states it: required strings present, the service one of the four
\* kinds, optional numbers absent or numbers.
WellShaped(name, args) ==
    LET str(x) == x.t = "string"
        opt(x) == x.t = "undefined" \/ x.t = "number"
        kind(x) == str(x) /\ x.v \in {"openai", "openrouter", "fastembed", "ollama"}
    IN  CASE name = "add_documents" ->
                /\ args.isObject /\ str(args.filePath) /\ str(args.collection)
                /\ kind(args.embeddingService)
                /\ opt(args.chunkSize) /\ opt(args.chunkOverlap)
          [] name = "search" ->
                /\ args.isObject /\ str(args.query) /\ str(args.collection)
                /\ kind(args.embeddingService) /\ opt(args.limit)
          [] name = "delete_collection" -> args.isObject /\ str(args.collection)
          [] OTHER -> TRUE

\* The call never reached a handler: no handler was chosen and nothing a
\* handler touches (store, cache, splitter, invocations) has moved.
NoHandlerReached ==
    /\ call.outcome[1].handler = None
    /\ store = << >>
    /\ dimensionCache = << >>
    /\ textProcessor = TextProcessor(DefaultChunkSize, DefaultChunkOverlap)
    /\ \A i \in Slots : inv[i] = IdleSlot

\* C21 (as stated): a call with an unrecognized tool name, or with arguments
\* that fail the structural check of add_documents, search or
\* delete_collection, ends in an invalid-parameters fault and reaches no
\* handler.
C21_UnservedCallIsInvalidParams ==
    Dispatched /\ (call.name \notin ToolNames \/ ~WellShaped(call.name, call.arguments)) =>
        /\ call.outcome[1].fault # None
        /\ call.outcome[1].fault[1].code = "InvalidParams"
        /\ NoHandlerReached

\* C21 (amended): arguments that fail the structural check of add_documents,
\* search or delete_collection end the call in an invalid-parameters fault,
\* an unrecognized tool name ends it in a method-not-found fault, and in
\* both cases no handler is reached; every other call reaches the handler of
\* its tool without a fault.
C21_UnservedCallFaultsBeforeHandler ==
    Dispatched =>
        LET out == call.outcome[1]
        IN  /\ call.name \notin ToolNames =>
                /\ out.fault # None
                /\ out.fault[1].code = "MethodNotFound"
                /\ NoHandlerReached
            /\ call.name \in ToolNames /\ ~WellShaped(call.name, call.arguments) =>
                /\ out.fault # None
                /\ out.fault[1].code = "InvalidParams"
                /\ NoHandlerReached
            /\ call.name \in ToolNames /\ WellShaped(call.name, call.arguments) =>
                out.fault = None /\ out.handler # None /\ inv[1].tool = call.name

\* An add_documents call naming a service the server does not know has been
\* refused.
C21_Witness ==
    /\ Dispatched
    /\ call.name = "add_documents"
    /\ call.arguments.isObject
    /\ call.arguments.filePath.t = "string"
    /\ call.arguments.collection.t = "string"
    /\ call.arguments.embeddingService = JsString("cohere")
    /\ call.outcome[1].fault # None
    /\ call.outcome[1].fault[1].code = "InvalidParams"

\* An external call made for the invocation in this slot has failed: the
\* listing behind collectionExists, the fetch behind getCollectionInfo, or a
\* call whose failure reached the handler's catch block.
FailureSeen(slot) ==
    \/ slot.seen # None /\ ~slot.seen[1].listed
    \/ /\ slot.seen # None /\ slot.seen[1].listed /\ slot.seen[1].existed
       /\ ~slot.seen[1].fetched /\ slot.pc # "info"
    \/ slot.result # None /\ slot.result[1].text = CatchPrefix(slot.tool)

\* C22: every failure raised while list_collections, add_documents, search
\* or delete_collection is handled (file read, configuration, provider,
\* probe, store) ends the invocation, with a result that carries a text and
\* isError = true.
C22_EveryFailureEndsInErrorResult ==
    \A i \in Slots :
        FailureSeen(inv[i]) =>
            /\ inv[i].pc = "done"
            /\ inv[i].result[1].isError
            /\ inv[i].result[1].text # ""

\* The invocation in this slot has ended on a negative validation outcome: a
\* negative compatibility verdict or a negative vector-batch verdict.
NegativeOutcome(slot) ==
    /\ slot.pc = "done"
    /\ \/ slot.compat # None /\ ~slot.compat[1].isValid
       \/ slot.validation # None /\ ~slot.validation[1].isValid

\* C23: every negative validation outcome add_documents or search reports
\* (compatibility verdict size_mismatch or error, negative vector-batch
\* verdict) comes with a non-empty list of remediation suggestions.
C23_NegativeOutcomeCarriesSuggestions ==
    \A i \in Slots :
        InFlight(i) /\ NegativeOutcome(inv[i]) =>
            /\ inv[i].result[1].isError
            /\ inv[i].result[1].suggested # None
            /\ Len(inv[i].result[1].suggested[1]) >= 1

\* The add_documents invocation in slot i returns success in this step:
\* its upsert has answered and the handler builds the success response.
ReturnsSuccess(i) ==
    /\ inv[i].tool = "add_documents"
    /\ inv[i].pc = "upsert"
    /\ inv'[i].pc = "done"
    /\ ~inv'[i].result[1].isError

\* The upsert of every add_documents invocation that returns success is the
\* only one the invocation issued and carried one point per chunk, each
\* with a defined vector of the provider's dimension, whatever the number
\* of vectors the provider returned; the provider then returned at least
\* one vector per chunk.
SuccessCarriedDefinedVectors ==
    \A i \in Slots :
        ReturnsSuccess(i) =>
            /\ inv[i].muts \in {0, 1}
            /\ inv'[i].muts = inv[i].muts + 1
            /\ Len(inv[i].vectors) = inv[i].chunks
            /\ \A k \in 1..inv[i].chunks :
                    inv[i].vectors[k] = Some(inv[i].vectorSize[1])
            /\ inv[i].received >= inv[i].chunks
            /\ inv'[i].result[1].count = inv[i].chunks

FoundAbsent(slot) ==
    /\ slot.tool = "add_documents"
    /\ slot.seen # None
    /\ slot.seen[1].listed
    /\ ~slot.seen[1].existed

\* C25: an add_documents invocation that returns an error result leaves the
\* store as it was before the invocation: a collection the invocation found
\* absent, and so had to create, is not in the store when the invocation has
\* ended in an error.
C25_ErrorResultLeavesStoreAsBefore ==
    \A i \in Slots :
        /\ FoundAbsent(inv[i])
        /\ inv[i].pc = "done"
        /\ inv[i].result[1].isError
        => inv[i].collection \notin DOMAIN store

\* validateEmbeddingCompatibility has ended, with a verdict or by throwing.
CompatEnded == call.fn = "validateEmbeddingCompatibility" /\ call.pc = "done"

\* C26: validateEmbeddingCompatibility returns action = create_collection
\* only when a listing of the store's collections answered and does not hold
\* the name; when the listing call fails the verdict is isValid = false,
\* action = error.
C26_CreateOnlyAfterSuccessfulListing ==
    CompatEnded /\ call.result[1].ok =>
        LET verdict == call.result[1].value[1]
        IN  /\ verdict.action = "create_collection" =>
                call.listed /\ call.collection \notin DOMAIN store
            /\ ~call.listed =>
                ~verdict.isValid /\ verdict.action = "error"

\* C28: validateEmbeddingCompatibility always returns a verdict and never
\* throws, whatever the store answers and whatever the service, an Ollama
\* service with no vector size initialized included; every failure inside it
\* (a failed store call, a throwing vectorSize getter) yields isValid = false,
\* action = error.
C28_CompatAlwaysReturnsVerdict ==
    CompatEnded =>
        /\ call.result[1].ok
        /\ (call.failures >= 1 \/ call.service.vectorSize = None) =>
              /\ ~call.result[1].value[1].isValid
              /\ call.result[1].value[1].action = "error"

\* A step of a search invocation (its start, one of its awaits answered, its
\* return) leaves the store as it is, and the invocation has issued no
\* create-collection, upsert or delete call.
SearchStepKeepsStore ==
    \A i \in Slots :
        /\ inv'[i] # inv[i]
        /\ inv[i].tool = "search" \/ inv'[i].tool = "search"
        => /\ store' = store
           /\ inv'[i].tool = "search" => inv'[i].muts = 0

\* C27: no execution of a search invocation, whatever its outcome, issues a
\* create-collection, upsert or delete call: the store's collections and
\* points are the same after the search as before it.
C27_SearchNeverMutatesStore == [][SearchStepKeepsStore]_vars

\* A search of a collection that holds points has ended with hits, and the
\* collection still holds its points.
C27_Witness ==
    \E i \in Slots :
        /\ inv[i].tool = "search"
        /\ inv[i].pc = "done"
        /\ inv[i].compat # None
        /\ inv[i].compat[1].action = "compatible"
        /\ ~inv[i].result[1].isError
        /\ inv[i].result[1].count >= 1
        /\ inv[i].collection \in DOMAIN store
        /\ store[inv[i].collection].points >= 1

\* The entries of the vector that are no number or are NaN.
OffendingEntries(vector) ==
    {j \in 1..Len(vector.elems) : vector.elems[j].t # "number"}

\* The errors the claim asks for at position k of the batch.
ErrorsAskedFor(k) ==
    LET vector == call.vectors[k]
        notArray == [msg |-> "is not an array", index |-> k - 1, a |-> 0, b |-> 0]
        wrongSize == [msg |-> "has size", index |-> k - 1,
                      a |-> Len(vector.elems), b |-> call.expectedSize]
        nonNumeric == [msg |-> "non-numeric values", index |-> k - 1,
                       a |-> Cardinality(OffendingEntries(vector)), b |-> 0]
    IN  IF ~vector.isArray THEN << notArray >>
        ELSE (IF Len(vector.elems) # call.expectedSize THEN << wrongSize >> ELSE << >>)
             \o (IF OffendingEntries(vector) # {} THEN << nonNumeric >> ELSE << >>)

\* The errors reported for position k, in the order of the error list.
ErrorsReportedAt(k) ==
    LET AtK(e) == e.index = k - 1
    IN  SelectSeq(call.verdict[1].errors, AtK)

\* C29: for a batch element that is not an array validateVectorData records
\* exactly one error for its index and no length error, non-numeric error or
\* warning; for an array element a wrong length and non-numeric or NaN
\* entries are each reported as a separate error for its index, the latter
\* naming the count of offending entries; the errors appear in ascending
\* index order.
C29_ErrorsPerElementInIndexOrder ==
    Validated /\ Len(call.vectors) >= 1 =>
        LET errors == call.verdict[1].errors
            warnings == call.verdict[1].warnings
        IN  /\ \A k \in 1..Len(call.vectors) : ErrorsReportedAt(k) = ErrorsAskedFor(k)
            /\ \A j \in 1..Len(errors) : errors[j].index \in 0..(Len(call.vectors) - 1)
            /\ \A j \in 1..(Len(errors) - 1) : errors[j].index <= errors[j + 1].index
            /\ \A j \in 1..Len(warnings) : call.vectors[warnings[j].index + 1].isArray

\* A batch of something that is no array followed by an array of the wrong
\* length with two offending entries has been validated: three errors.
C29_Witness ==
    /\ Validated
    /\ call.expectedSize = 1
    /\ call.vectors = << NotArray, Arr(<< NaNElem, StrElem >>) >>
    /\ Len(call.verdict[1].errors) = 3
    /\ call.verdict[1].errors[3].a = 2

\* An invocation is being handled in slot i: it has started and not returned.
Handling(i) == inv[i].pc \notin {"idle", "done"}

\* The invocation in slot i has produced its result.
Returned1(i) == inv[i].pc = "done" /\ inv[i].result # None

\* An invocation that has produced its result produces nothing more: its
\* next step hands the result over and frees the slot.
OneResult ==
    \A i \in Slots :
        inv[i].pc = "done" /\ inv'[i] # inv[i] => inv'[i] = IdleSlot

\* The sequential service has issued at most one request per text, and every
\* request but the outstanding or the failed one has produced an embedding:
\* no request follows a failed one.
SequentialCallsBounded ==
    (/\ call.fn = "provider"
     /\ call.instance # None
     /\ call.instance[1].type = "ollama_sequential") =>
        /\ call.calls <= call.texts
        /\ call.calls = Len(call.embeddings)
                        + (IF \/ call.pc = "asking"
                              \/ call.pc = "done" /\ ~call.result[1].ok
                           THEN 1 ELSE 0)

\* C30: when every external call returns or fails in the end, every tool
\* invocation eventually returns, and returns exactly one result; a
\* sequential provider issues at most one backing call per input text and no
\* further call after the first failing one.
C30_EveryInvocationReturnsOnce ==
    /\ \A i \in Slots : Handling(i) ~> Returned1(i)
    /\ [][OneResult]_vars
    /\ []SequentialCallsBounded

\* An add_documents invocation has returned success after all its awaits:
\* file read, splitter, probe, listing, embedding call, create and upsert.
C30_Witness ==
    \E i \in Slots :
        /\ Returned1(i)
        /\ inv[i].tool = "add_documents"
        /\ inv[i].service = "ollama"
        /\ inv[i].muts = 2
        /\ ~inv[i].result[1].isError

====
